---- MODULE Spec2Model ----
(***************************************************************************)
(* Model of check_app_engaccpy.py: the item classifier, the dimensional     *)
(* (numerical) audit, the accounting audit, the process audit, the header   *)
(* audit, the issue consolidator, and the analysis run, the OCR step and    *)
(* the page around them.                                                    *)
(*                                                                          *)
(* Text is modelled character by character: a string is a sequence of       *)
(* characters and a character is a one-symbol TLA+ string.  ASCII           *)
(* characters stand for themselves; a CJK character of the source is        *)
(* written by its romanised name ("wei","zai","sheng" is the three          *)
(* character keyword for "not reconditioned", of which "zai","sheng",       *)
(* "reconditioned", is a substring, as in the source).  Numbers are         *)
(* fixed-point integers with four decimal digits, the precision to which    *)
(* the source rounds interval endpoints.                                    *)
(*                                                                          *)
(* Each function is run by a specification of its own:                      *)
(*   SpecClassify     assign_category_by_python on one title                *)
(*   Spec             python_numerical_audit on one item, with every title, *)
(*                    category, spec text and value of the model            *)
(*   SpecBatch        python_numerical_audit on several items               *)
(*   SpecConsolidate  consolidate_issues, called on a list and then again   *)
(*                    on the list it returned                               *)
(*   SpecAccounting   python_accounting_audit on the summary rows           *)
(*   SpecLocal        python_accounting_audit, the local check of the items *)
(*   SpecDuplicates   python_accounting_audit, the duplicated serial numbers*)
(*   SpecBuckets      python_accounting_audit, the settlement buckets       *)
(*   SpecTotals       python_accounting_audit, the totals and their details *)
(*   SpecParser       python_numerical_audit, the notations of a spec text  *)
(*   SpecProcess      python_process_audit on the stages of the items       *)
(*   SpecLookup       python_process_audit, the lookup of the rule table    *)
(*   SpecTitles       python_process_audit, titles of several keywords      *)
(*   SpecHeader       python_header_audit_batch on the pages of a gallery   *)
(*   SpecDates        python_header_audit_batch on the two dates            *)
(*   SpecPipeline     the analysis run: classification, then the engines    *)
(*   SpecOcr          the OCR step: one task per page on the worker pool    *)
(*   SpecPage         the page: the user events and the displayed result    *)
(***************************************************************************)
EXTENDS Integers, Sequences, FiniteSets, TLC

VARIABLES
    \* ---- assign_category_by_python
    c_title,        \* item_title, the argument
    c_pc,           \* position in the function
    c_row,          \* number of rule rows scanned so far
    c_table_ok,     \* whether pd.read_excel("rules.xlsx") succeeds
    best_score,     \* best_score
    forced_rule,    \* forced_rule (<<>> is None)
    c_result,       \* the returned category (<<>> before the return)
    \* ---- python_numerical_audit
    n_domain,       \* which inputs the run draws: "single" or "batch"
    n_pc,           \* position in the function
    n_items,        \* items of dimension_data taken so far
    n_count,        \* segments of ds taken so far, over all items
    n_item,         \* the item of the current iteration
    clean_std,      \* clean_std of the current item
    s_ranges,       \* s_ranges of the current item
    un_regen_target,\* un_regen_target (<<>> is None)
    grouped_errors, \* grouped_errors, in insertion order
    n_result,       \* the returned list
    n_last,         \* history: the segment taken last and what became of it
    n_failed,       \* history: measurements found failing so far
    \* ---- consolidate_issues
    k_issues,       \* the argument: the list of issues
    k_orig,         \* history: the argument as it was when the call began
    k_pc,           \* position in the function
    k_pass,         \* 1 in the first call, 2 when called again on its result
    k_i,            \* issues (then cards) the loops have taken
    k_grouped,      \* grouped, in insertion order
    k_result,       \* result
    k_first,        \* history: what the first call returned
    \* ---- python_accounting_audit
    a_pc,           \* position in the function
    a_n,            \* rows, items or tracker entries the current loop has taken
    a_issues,       \* accounting_issues
    a_tracker,      \* global_sum_tracker, in insertion order
    a_dom,          \* which family of documents the call is run on
    a_rules,        \* rules_map, in insertion order
    a_rows,         \* history: the summary rows read so far
    a_items,        \* history: the items read so far, numbered by position
    \* ---- python_process_audit
    p_pc,           \* position in the function
    p_n,            \* items or history entries the current loop has taken
    p_rules,        \* rules_map, in insertion order
    p_items,        \* history: the items read so far, numbered by position
    p_history,      \* history, in insertion order
    p_issues,       \* process_issues
    p_dom,          \* which family of documents the call is run on
    \* ---- python_header_audit_batch
    h_pc,           \* position in the function
    h_n,            \* pages of photo_gallery the loop has taken
    h_gallery,      \* photo_gallery, the argument
    h_info,         \* ai_res_json, the argument
    h_found,        \* found_jobs_map, in insertion order
    h_issues,       \* header_issues
    \* ---- the analysis run: classification, then the engines
    pl_pc,          \* position in the run
    pl_ai,          \* history: dimension_data as the extraction returned it
    pl_items,       \* dim_data
    pl_i,           \* items the classification loop has taken
    pl_rules,       \* the rule the table resolves for each title (<<>>: none)
    pl_order,       \* the engines still to run, in the order they run
    pl_read,        \* history: what each engine read of the items
    \* ---- the OCR step
    o_pc,           \* position in the step
    o_gallery,      \* photo_gallery
    o_orig,         \* history: photo_gallery as the step found it
    o_task,         \* where each page's task stands
    o_ret,          \* what each task returned
    \* ---- the page around the run: st.session_state
    u_gallery,      \* photo_gallery
    u_mode,         \* source_mode
    u_cache,        \* analysis_result_cache
    u_auto,         \* auto_start_analysis
    u_enable,       \* enable_auto_analysis
    u_source,       \* data_source, the radio
    u_held,         \* the file the JSON or Excel uploader holds ("": none)
    u_json_name,    \* last_loaded_json_name ("": not in session_state)
    u_xlsx_name     \* last_loaded_xlsx_name ("": not in session_state)

clsVars == <<c_title, c_pc, c_row, c_table_ok, best_score, forced_rule, c_result>>

numVars == <<n_domain, n_pc, n_items, n_count, n_item, clean_std, s_ranges,
             un_regen_target, grouped_errors, n_result, n_last, n_failed>>

conVars == <<k_issues, k_orig, k_pc, k_pass, k_i, k_grouped, k_result, k_first>>

accVars == <<a_pc, a_n, a_issues, a_tracker, a_dom, a_rules, a_rows, a_items>>

procVars == <<p_pc, p_n, p_rules, p_items, p_history, p_issues, p_dom>>

hdrVars == <<h_pc, h_n, h_gallery, h_info, h_found, h_issues>>

\* The engines that audit the extracted items
engineVars == <<clsVars, numVars, conVars, accVars, procVars>>

\* The header audit and the application around the engines
plVars == <<pl_pc, pl_ai, pl_items, pl_i, pl_rules, pl_order, pl_read>>

ocrVars == <<o_pc, o_gallery, o_orig, o_task, o_ret>>

uiVars == <<u_gallery, u_mode, u_cache, u_auto, u_enable, u_source, u_held,
           u_json_name, u_xlsx_name>>

appVars == <<plVars, ocrVars, uiVars>>

extVars == <<hdrVars, appVars>>

vars == <<engineVars, extVars>>

\* Each specification below runs one function; the state of the others rests
ClsIdle ==
    /\ c_title = <<>> /\ c_pc = "idle" /\ c_row = 0 /\ c_table_ok = FALSE
    /\ best_score = 0 /\ forced_rule = <<>> /\ c_result = <<>>

NoItem ==
    [page |-> 0, item_title |-> <<>>, category |-> <<>>, lt |-> <<>>,
     std_spec |-> <<>>]

NoEntry ==
    [fields |-> <<>>, kind |-> "", val_str |-> <<>>,
     reason |-> [text |-> "", arg |-> 0], label |-> "unknown",
     t_used |-> [kind |-> "N/A", num |-> 0, ranges |-> <<>>]]

NumIdle ==
    /\ n_domain = "idle" /\ n_pc = "idle" /\ n_items = 0 /\ n_count = 0
    /\ n_item = NoItem /\ clean_std = <<>> /\ s_ranges = <<>>
    /\ un_regen_target = <<>> /\ grouped_errors = <<>> /\ n_result = <<>>
    /\ n_last = NoEntry /\ n_failed = 0

ConIdle ==
    /\ k_issues = <<>> /\ k_orig = <<>> /\ k_pc = "idle" /\ k_pass = 0
    /\ k_i = 0 /\ k_grouped = <<>> /\ k_result = <<>> /\ k_first = <<>>

AccIdle ==
    /\ a_pc = "idle" /\ a_n = 0 /\ a_issues = <<>> /\ a_tracker = <<>>
    /\ a_dom = "idle" /\ a_rules = <<>> /\ a_rows = <<>> /\ a_items = <<>>

ProcIdle ==
    /\ p_pc = "idle" /\ p_n = 0 /\ p_rules = <<>> /\ p_items = <<>>
    /\ p_history = <<>> /\ p_issues = <<>> /\ p_dom = "idle"

HdrIdle ==
    /\ h_pc = "idle" /\ h_n = 0 /\ h_gallery = <<>> /\ h_info = <<>>
    /\ h_found = <<>> /\ h_issues = <<>>

EnginesIdle == ClsIdle /\ NumIdle /\ ConIdle /\ AccIdle /\ ProcIdle

PlIdle ==
    /\ pl_pc = "idle" /\ pl_ai = <<>> /\ pl_items = <<>> /\ pl_i = 0
    /\ pl_rules = <<>> /\ pl_order = <<>> /\ pl_read = <<>>

OcrIdle ==
    /\ o_pc = "idle" /\ o_gallery = <<>> /\ o_orig = <<>>
    /\ o_task = <<>> /\ o_ret = <<>>

\* analysis_result_cache when it is None
NoCache == [set |-> FALSE, of |-> <<>>]

UiIdle ==
    /\ u_gallery = <<>> /\ u_mode = "idle" /\ u_cache = NoCache
    /\ u_auto = FALSE /\ u_enable = FALSE /\ u_source = "idle"
    /\ u_held = "" /\ u_json_name = "" /\ u_xlsx_name = ""

AppIdle == PlIdle /\ OcrIdle /\ UiIdle

ExtIdle == HdrIdle /\ AppIdle

---------------------------------------------------------------------------
(* Text helpers: Python's str methods on character sequences.              *)

\* k in s
Contains(s, k) ==
    \E i \in 1..(Len(s) - Len(k) + 1) : SubSeq(s, i, i + Len(k) - 1) = k

\* any(k in s for k in ks)
ContainsAny(s, ks) == \E k \in ks : Contains(s, k)

\* s.replace(c, "") for every character c of cs
RemoveChars(s, cs) == SelectSeq(s, LAMBDA c : c \notin cs)

UpperOf ==
    [a |-> "A", b |-> "B", c |-> "C", d |-> "D", e |-> "E", f |-> "F",
     g |-> "G", h |-> "H", i |-> "I", j |-> "J", k |-> "K", l |-> "L",
     m |-> "M", n |-> "N", o |-> "O", p |-> "P", q |-> "Q", r |-> "R",
     s |-> "S", t |-> "T", u |-> "U", v |-> "V", w |-> "W", x |-> "X",
     y |-> "Y", z |-> "Z"]

\* str.upper(): CJK characters, digits and punctuation are unchanged
Upper(s) ==
    [i \in 1..Len(s) |-> IF s[i] \in DOMAIN UpperOf THEN UpperOf[s[i]] ELSE s[i]]

RECURSIVE Flatten(_)
Flatten(ws) == IF ws = <<>> THEN <<>> ELSE Head(ws) \o Flatten(Tail(ws))

---------------------------------------------------------------------------
(* Vocabulary of the source, as character sequences.                       *)

KW_BALANCE_ZH == <<"dong", "ping", "heng">>
KW_BALANCING == <<"B", "A", "L", "A", "N", "C", "I", "N", "G">>
KW_HEAT_ZH == <<"re", "chu", "li">>
KW_HEAT == <<"H", "E", "A", "T">>
KW_TREATING == <<"T", "R", "E", "A", "T", "I", "N", "G">>
KW_WELD_BU == <<"han_jin", "bu">>
KW_WELD_JIE == <<"han_jin", "jie">>
KW_WELD_HUO == <<"han_huo">>
KW_WELD_JIN == <<"han_jin">>
KW_WELD == <<"W", "E", "L", "D">>
KW_JIA == <<"jia_k">>
KW_UNREGEN_ZH == <<"wei", "zai", "sheng">>
KW_UN_REGEN == <<"U", "N", "_", "R", "E", "G", "E", "N">>
KW_ROUGH == <<"cu", "che">>
KW_REGEN_ZH == <<"zai", "sheng">>
KW_GRIND_ZH == <<"yan", "mo">>
KW_FINISH == <<"jing", "jia", "gong">>
KW_TURN_FIX == <<"che", "xiu">>
KW_KEYWAY == <<"K", "E", "Y", "W", "A", "Y">>
KW_GRIND == <<"G", "R", "I", "N", "D">>
KW_MACHIN == <<"M", "A", "C", "H", "I", "N">>
KW_FINE_TURN == <<"jing", "che">>
KW_ASSEMBLE == <<"zu", "zhuang">>
KW_DISASSEMBLE == <<"chai", "zhuang">>
KW_FIT == <<"zhuang", "pei">>
KW_ASSY == <<"A", "S", "S", "Y">>
KW_JOURNAL_JING == <<"zhou", "jing_n">>
KW_JOURNAL_TOU == <<"zhou", "tou">>
KW_JOURNAL_WEI == <<"zhou", "wei_p">>
KW_BORE == <<"nei", "kong">>
KW_JOURNAL == <<"J", "O", "U", "R", "N", "A", "L">>
KW_BODY == <<"ben", "ti">>
KW_ROUND == <<"zhen", "yuan", "du">>
KW_EXEMPT_ZH == <<"huo", "mian">>
KW_EXEMPT == <<"E", "X", "E", "M", "P", "T">>
KW_SKIP == <<"S", "K", "I", "P">>
KW_RANGE == <<"R", "A", "N", "G", "E">>
KW_MIN == <<"M", "I", "N">>
KW_MAX == <<"M", "A", "X">>

\* The categories assign_category_by_python returns
CAT_EXEMPT == <<"e", "x", "e", "m", "p", "t">>
CAT_RANGE == <<"r", "a", "n", "g", "e">>
CAT_MIN == <<"m", "i", "n", "_", "l", "i", "m", "i", "t">>
CAT_MAX == <<"m", "a", "x", "_", "l", "i", "m", "i", "t">>
CAT_UNREGEN == <<"u", "n", "_", "r", "e", "g", "e", "n">>
CAT_UNKNOWN == <<"u", "n", "k", "n", "o", "w", "n">>

Categories == {CAT_EXEMPT, CAT_RANGE, CAT_MIN, CAT_MAX, CAT_UNREGEN, CAT_UNKNOWN}

---------------------------------------------------------------------------
(* assign_category_by_python                                               *)

\* Longest title, in vocabulary words, that the classifier is run on
MaxTitleWords == 2
\* Longest rule table, in rows
MaxRows == 2

SCORE_RETRY == 95
SCORE_ACCEPT == 85

\* Words the titles are built from
ClsWords ==
    {KW_BALANCE_ZH, KW_HEAT_ZH, <<"H", "e", "a", "t">>, KW_WELD_BU,
     KW_UNREGEN_ZH, KW_REGEN_ZH, KW_JOURNAL_JING, KW_BODY, KW_ROUND, <<" ">>}

WordSeqs(words, n) == UNION {[1..k -> words] : k \in 1..n}

ClsTitles == {Flatten(ws) : ws \in WordSeqs(ClsWords, MaxTitleWords)}

\* Category_Rule cells of the rule table
RuleVals ==
    {<<>>, <<"n", "a", "n">>, KW_EXEMPT_ZH, <<"s", "k", "i", "p">>,
     KW_REGEN_ZH, KW_BODY \o KW_UNREGEN_ZH, KW_WELD_BU, KW_JOURNAL_JING,
     KW_BODY, <<"q", "i", "t", "a">>}

\* fuzz.partial_ratio is a library function: its results are inputs
Scores == {80, 90, 100}
RetryScores == {80, 100}

\* One row of the table as the loop sees it: the rule cell and the two
\* similarity scores of its Item_Name against the title
RuleRows == [rule : RuleVals, score : Scores, score_no : RetryScores]

\* clean_text(text)
clean_text(text) == RemoveChars(text, {" ", "\n", "\r", "\"", "'"})

\* t = str(item_title).upper().replace(" ", "").replace("\n", "").replace('"', "")
TitleKey(title) == RemoveChars(Upper(title), {" ", "\n", "\""})

ExemptKeywords == {KW_BALANCE_ZH, KW_BALANCING, KW_HEAT_ZH, KW_HEAT, KW_TREATING}

\* The test made on the title as written, its case kept
HasExemptKeywordCased(title) ==
    ContainsAny(RemoveChars(title, {" ", "\n", "\""}), ExemptKeywords)

HasExemptKeyword(title) == ContainsAny(TitleKey(title), ExemptKeywords)

\* The score of one row: partial_ratio, retried without the parenthesised
\* suffix when below 95
RowScore(row) ==
    IF row.score < SCORE_RETRY /\ row.score_no > row.score
    THEN row.score_no ELSE row.score

\* The category a resolved rule string decides, <<>> when it names none
RuleCategory(rule) ==
    LET fr == Upper(rule) IN
    IF ContainsAny(fr, {KW_EXEMPT_ZH, KW_EXEMPT, KW_SKIP}) THEN CAT_EXEMPT
    ELSE IF ContainsAny(fr, {KW_REGEN_ZH, KW_FINE_TURN, KW_RANGE}) THEN CAT_RANGE
    ELSE IF ContainsAny(fr, {KW_WELD_JIN, KW_WELD_HUO, KW_MIN}) THEN CAT_MIN
    ELSE IF ContainsAny(fr, {KW_JOURNAL_JING, KW_JOURNAL_TOU, KW_JOURNAL_WEI, KW_MAX})
         THEN CAT_MAX
    ELSE IF ContainsAny(fr, {KW_BODY, KW_UN_REGEN}) THEN CAT_UNREGEN
    ELSE <<>>

WeldKeywords == {KW_WELD_BU, KW_WELD_JIE, KW_WELD_HUO, KW_WELD, KW_JIA}
UnregenKeywords == {KW_UNREGEN_ZH, KW_UN_REGEN, KW_ROUGH}
RegenKeywords ==
    {KW_REGEN_ZH, KW_GRIND_ZH, KW_FINISH, KW_TURN_FIX, KW_KEYWAY, KW_GRIND,
     KW_MACHIN, KW_FINE_TURN, KW_ASSEMBLE, KW_DISASSEMBLE, KW_FIT, KW_ASSY}
JournalFamily ==
    {KW_JOURNAL_JING, KW_JOURNAL_TOU, KW_JOURNAL_WEI, KW_BORE, KW_JOURNAL}

\* The keyword fallback
\* The keyword fallback with the finishing vocabulary looked at before the
\* non-reconditioned one
KeywordCategoryRegenFirst(title) ==
    LET t == TitleKey(title) IN
    IF ContainsAny(t, WeldKeywords) THEN CAT_MIN
    ELSE IF ContainsAny(t, RegenKeywords) THEN CAT_RANGE
    ELSE IF ContainsAny(t, UnregenKeywords)
         THEN IF ContainsAny(t, JournalFamily) THEN CAT_MAX ELSE CAT_UNREGEN
    ELSE CAT_UNKNOWN

KeywordCategory(title) ==
    LET t == TitleKey(title) IN
    IF ContainsAny(t, WeldKeywords) THEN CAT_MIN
    ELSE IF ContainsAny(t, UnregenKeywords)
         THEN IF ContainsAny(t, JournalFamily) THEN CAT_MAX ELSE CAT_UNREGEN
    ELSE IF ContainsAny(t, RegenKeywords) THEN CAT_RANGE
    ELSE CAT_UNKNOWN

ClsInit ==
    /\ c_title \in ClsTitles
    /\ c_table_ok \in BOOLEAN
    /\ c_pc = "start"
    /\ c_row = 0
    /\ best_score = 0
    /\ forced_rule = <<>>
    /\ c_result = <<>>
    /\ NumIdle /\ ConIdle /\ AccIdle /\ ProcIdle /\ ExtIdle

\* The keyword override: balancing or heat treatment is exempt
ClsExemptKeyword ==
    /\ c_pc = "start"
    /\ HasExemptKeyword(c_title)
    /\ c_pc' = "done"
    /\ c_result' = CAT_EXEMPT
    /\ UNCHANGED <<c_title, c_row, c_table_ok, best_score, forced_rule>>
    /\ UNCHANGED <<numVars, conVars, accVars, procVars, extVars>>

\* pd.read_excel: on failure the except clause falls through to the keywords
ClsLoadRules ==
    /\ c_pc = "start"
    /\ ~HasExemptKeyword(c_title)
    /\ c_pc' = IF c_table_ok THEN "scan" ELSE "fallback"
    /\ UNCHANGED <<c_title, c_row, c_table_ok, best_score, forced_rule, c_result>>
    /\ UNCHANGED <<numVars, conVars, accVars, procVars, extVars>>

\* One iteration of the loop over the rows
ClsScanRow ==
    /\ c_pc = "scan"
    /\ c_row < MaxRows
    /\ \E row \in RuleRows :
         LET skip == row.rule = <<>> \/ row.rule = <<"n", "a", "n">>
             score == RowScore(row)
         IN  IF skip \/ ~(score > SCORE_ACCEPT)
             THEN UNCHANGED <<best_score, forced_rule>>
             ELSE IF score > best_score
             THEN /\ best_score' = score
                  /\ forced_rule' = row.rule
             ELSE IF score = best_score /\ Len(row.rule) > Len(forced_rule)
             THEN /\ forced_rule' = row.rule
                  /\ UNCHANGED best_score
             ELSE UNCHANGED <<best_score, forced_rule>>
    /\ c_row' = c_row + 1
    /\ UNCHANGED <<c_title, c_pc, c_table_ok, c_result>>
    /\ UNCHANGED <<numVars, conVars, accVars, procVars, extVars>>

\* After the last row: the resolved rule decides, if it names a category
ClsRuleDecides ==
    /\ c_pc = "scan"
    /\ forced_rule # <<>>
    /\ RuleCategory(forced_rule) # <<>>
    /\ c_pc' = "done"
    /\ c_result' = RuleCategory(forced_rule)
    /\ UNCHANGED <<c_title, c_row, c_table_ok, best_score, forced_rule>>
    /\ UNCHANGED <<numVars, conVars, accVars, procVars, extVars>>

ClsNoRule ==
    /\ c_pc = "scan"
    /\ forced_rule = <<>> \/ RuleCategory(forced_rule) = <<>>
    /\ c_pc' = "fallback"
    /\ UNCHANGED <<c_title, c_row, c_table_ok, best_score, forced_rule, c_result>>
    /\ UNCHANGED <<numVars, conVars, accVars, procVars, extVars>>

ClsFallback ==
    /\ c_pc = "fallback"
    /\ c_pc' = "done"
    /\ c_result' = KeywordCategory(c_title)
    /\ UNCHANGED <<c_title, c_row, c_table_ok, best_score, forced_rule>>
    /\ UNCHANGED <<numVars, conVars, accVars, procVars, extVars>>

ClsNext ==
    \/ ClsExemptKeyword
    \/ ClsLoadRules
    \/ ClsScanRow
    \/ ClsRuleDecides
    \/ ClsNoRule
    \/ ClsFallback

SpecClassify == ClsInit /\ [][ClsNext]_vars

\* The title names balancing or heat treatment, in Chinese or in English of
\* any case, spaces apart
NamesBalancingOrHeat(title) ==
    \E k \in {KW_BALANCE_ZH, KW_BALANCING, KW_HEAT_ZH, KW_HEAT, KW_TREATING} :
        Contains(Upper(RemoveChars(title, {" "})), k)

\* C10: a title that names balancing or heat treatment is classified exempt,
\* whatever the rule table holds and whatever other keywords the title has.
C10_VocabularyIsExempt ==
    (c_pc = "done" /\ NamesBalancingOrHeat(c_title)) => c_result = CAT_EXEMPT

\* "Heat" followed by the weld keyword, with a rule table at hand
C10_Witness ==
    /\ c_pc = "done"
    /\ c_table_ok
    /\ c_title = <<"H", "e", "a", "t">> \o KW_WELD_BU
    /\ c_result = CAT_EXEMPT

\* The tokens of a rule string, read off the string in upper case
RuleHas(rule, tokens) == \E k \in tokens : Contains(Upper(rule), k)
ExemptTokens == {KW_EXEMPT_ZH, KW_EXEMPT, KW_SKIP}
RangeTokens == {KW_REGEN_ZH, KW_FINE_TURN, KW_RANGE}
WeldTokens == {KW_WELD_JIN, KW_WELD_HUO, KW_MIN}
JournalTokens == {KW_JOURNAL_JING, KW_JOURNAL_TOU, KW_JOURNAL_WEI, KW_MAX}
BodyTokens == {KW_BODY, KW_UN_REGEN, KW_UNREGEN_ZH}

\* The rule string names the un-reconditioned body: a body or un-regen token,
\* and no exemption, weld or journal token
NamesUnregenBody(rule) ==
    /\ RuleHas(rule, BodyTokens)
    /\ ~RuleHas(rule, ExemptTokens)
    /\ ~RuleHas(rule, WeldTokens)
    /\ ~RuleHas(rule, JournalTokens)

\* C11: when a rule is resolved for a title without exempt keyword, a rule
\* string that names the un-reconditioned body is classified un_regen.
C11_UnregenBodyRule ==
    (/\ c_pc = "done"
     /\ ~NamesBalancingOrHeat(c_title)
     /\ forced_rule # <<>>
     /\ NamesUnregenBody(forced_rule)) => c_result = CAT_UNREGEN

\* No rule decides: the table is unavailable, no row matched, or the resolved
\* rule carries none of the known tokens
NoRuleDecides ==
    \/ ~c_table_ok
    \/ forced_rule = <<>>
    \/ ~RuleHas(forced_rule,
                ExemptTokens \cup RangeTokens \cup WeldTokens \cup JournalTokens
                    \cup {KW_BODY, KW_UN_REGEN})

\* The vocabularies of the titles, read off the title in upper case, spaces
\* apart
TitleHas(title, words) ==
    \E k \in words : Contains(Upper(RemoveChars(title, {" "})), k)
WeldWords == {KW_WELD_BU, KW_WELD_JIE, KW_WELD_HUO, KW_WELD, KW_JIA}
NonRecondWords == {KW_UNREGEN_ZH, KW_UN_REGEN, KW_ROUGH}
JournalWords ==
    {KW_JOURNAL_JING, KW_JOURNAL_TOU, KW_JOURNAL_WEI, KW_BORE, KW_JOURNAL}
FinishingWords ==
    {KW_REGEN_ZH, KW_GRIND_ZH, KW_FINISH, KW_TURN_FIX, KW_KEYWAY, KW_GRIND,
     KW_MACHIN, KW_FINE_TURN, KW_ASSEMBLE, KW_DISASSEMBLE, KW_FIT, KW_ASSY}

\* C12: when no rule decides, the keywords decide in strict precedence: weld
\* gives min_limit; else non-reconditioned gives max_limit with a journal
\* word and un_regen without; else finishing gives range; else unknown.  The
\* answer is always one of the six categories.
C12_KeywordPrecedence ==
    c_pc = "done" =>
        /\ c_result \in Categories
        /\ (~NamesBalancingOrHeat(c_title) /\ NoRuleDecides) =>
              c_result =
                 IF TitleHas(c_title, WeldWords) THEN CAT_MIN
                 ELSE IF TitleHas(c_title, NonRecondWords)
                      THEN IF TitleHas(c_title, JournalWords) THEN CAT_MAX
                           ELSE CAT_UNREGEN
                 ELSE IF TitleHas(c_title, FinishingWords) THEN CAT_RANGE
                 ELSE CAT_UNKNOWN

\* A title of non-reconditioned and journal words, with the table unavailable
C12_Witness ==
    /\ c_pc = "done"
    /\ ~c_table_ok
    /\ c_title = KW_UNREGEN_ZH \o KW_JOURNAL_JING
    /\ c_result = CAT_MAX

---------------------------------------------------------------------------
(* Numbers in text.  A number is a fixed-point integer: Scale stands for   *)
(* 1.0, so that 300.05 is 3000500.  The texts of the model carry at most   *)
(* four decimal digits.                                                    *)

Scale == 10000

IsDigit(c) == c \in {"0", "1", "2", "3", "4", "5", "6", "7", "8", "9"}

DigitVal(c) ==
    CASE c = "0" -> 0 [] c = "1" -> 1 [] c = "2" -> 2 [] c = "3" -> 3
      [] c = "4" -> 4 [] c = "5" -> 5 [] c = "6" -> 6 [] c = "7" -> 7
      [] c = "8" -> 8 [] c = "9" -> 9

IsSpace(c) == c \in {" ", "\n", "\r", "\t"}

\* Last index of the run of digits that starts at i (i - 1 when there is none)
RECURSIVE DigitRunEnd(_, _)
DigitRunEnd(s, i) ==
    IF i <= Len(s) /\ IsDigit(s[i]) THEN DigitRunEnd(s, i + 1) ELSE i - 1

\* Last index of the greedy match of \d+\.?\d* that starts at the digit s[i]
NumEnd(s, i) ==
    LET e1 == DigitRunEnd(s, i) IN
    IF e1 < Len(s) /\ s[e1 + 1] = "." THEN DigitRunEnd(s, e1 + 2) ELSE e1

RECURSIVE DigitsVal(_)
DigitsVal(ds) ==
    IF ds = <<>> THEN 0
    ELSE 10 * DigitsVal(SubSeq(ds, 1, Len(ds) - 1)) + DigitVal(ds[Len(ds)])

RECURSIVE Pow10(_)
Pow10(n) == IF n = 0 THEN 1 ELSE 10 * Pow10(n - 1)

\* Index of the first "." of s, 0 when it has none
DotAt(s) ==
    IF \E i \in 1..Len(s) : s[i] = "."
    THEN CHOOSE i \in 1..Len(s) : s[i] = "." /\ \A j \in 1..(i - 1) : s[j] # "."
    ELSE 0

\* float(tok) of an unsigned token matched by \d+\.?\d*
UFloat(tok) ==
    LET d == DotAt(tok)
        ip == IF d = 0 THEN tok ELSE SubSeq(tok, 1, d - 1)
        fp == IF d = 0 THEN <<>> ELSE SubSeq(tok, d + 1, Len(tok))
        f4 == IF Len(fp) > 4 THEN SubSeq(fp, 1, 4) ELSE fp
    IN  DigitsVal(ip) * Scale + DigitsVal(f4) * Pow10(4 - Len(f4))

\* float(tok) of a token matched by [-+]?\d+\.?\d*
SFloat(tok) ==
    IF tok[1] = "-" THEN 0 - UFloat(Tail(tok))
    ELSE IF tok[1] = "+" THEN UFloat(Tail(tok))
    ELSE UFloat(tok)

\* re.findall(r"\d+\.?\d*", s), from index i on
RECURSIVE FindNums(_, _)
FindNums(s, i) ==
    IF i > Len(s) THEN <<>>
    ELSE IF IsDigit(s[i])
         THEN <<SubSeq(s, i, NumEnd(s, i))>> \o FindNums(s, NumEnd(s, i) + 1)
         ELSE FindNums(s, i + 1)

RECURSIVE SkipSpaces(_, _)
SkipSpaces(s, i) == IF i <= Len(s) /\ IsSpace(s[i]) THEN SkipSpaces(s, i + 1) ELSE i

\* re.findall(r"(\d+\.?\d*)\s*mm", s), from index i on
RECURSIVE FindMmNums(_, _)
FindMmNums(s, i) ==
    IF i > Len(s) THEN <<>>
    ELSE IF IsDigit(s[i])
         THEN LET e == NumEnd(s, i)
                  j == SkipSpaces(s, e + 1)
              IN  IF j + 1 <= Len(s) /\ s[j] = "m" /\ s[j + 1] = "m"
                  THEN <<SubSeq(s, i, e)>> \o FindMmNums(s, j + 2)
                  ELSE FindMmNums(s, i + 1)
         ELSE FindMmNums(s, i + 1)

\* re.findall(r"[-+]?\d+\.?\d*", s), from index i on
RECURSIVE FindSignedNums(_, _)
FindSignedNums(s, i) ==
    IF i > Len(s) THEN <<>>
    ELSE IF s[i] \in {"-", "+"} /\ i < Len(s) /\ IsDigit(s[i + 1])
         THEN <<SubSeq(s, i, NumEnd(s, i + 1))>>
              \o FindSignedNums(s, NumEnd(s, i + 1) + 1)
    ELSE IF IsDigit(s[i])
         THEN <<SubSeq(s, i, NumEnd(s, i))>> \o FindSignedNums(s, NumEnd(s, i) + 1)
         ELSE FindSignedNums(s, i + 1)

\* s.replace(k, ""), from index i on
RECURSIVE RemoveSub(_, _, _)
RemoveSub(s, k, i) ==
    IF i > Len(s) THEN <<>>
    ELSE IF i + Len(k) - 1 <= Len(s) /\ SubSeq(s, i, i + Len(k) - 1) = k
         THEN RemoveSub(s, k, i + Len(k))
         ELSE <<s[i]>> \o RemoveSub(s, k, i + 1)

RECURSIVE Strip(_)
Strip(s) ==
    IF s = <<>> THEN s
    ELSE IF IsSpace(s[1]) THEN Strip(Tail(s))
    ELSE IF IsSpace(s[Len(s)]) THEN Strip(SubSeq(s, 1, Len(s) - 1))
    ELSE s

SeqToSet(q) == {q[i] : i \in 1..Len(q)}

Abs(x) == IF x < 0 THEN 0 - x ELSE x

SetMin(S) == CHOOSE x \in S : \A y \in S : x <= y
SetMax(S) == CHOOSE x \in S : \A y \in S : x >= y

---------------------------------------------------------------------------
(* python_numerical_audit: the spec text of an item                        *)

\* raw_spec = str(item.get("std_spec", "")).replace('"', "")
RawSpec(std_spec) == RemoveChars(std_spec, {"\""})

\* [float(n) for n in ...] over a list of unsigned tokens
UFloats(toks) == [i \in 1..Len(toks) |-> UFloat(toks[i])]

\* noise = [350.0, 300.0, 200.0, 145.0, 130.0, 1.0, ... 6.0]
Noise == {350 * Scale, 300 * Scale, 200 * Scale, 145 * Scale, 130 * Scale,
          1 * Scale, 2 * Scale, 3 * Scale, 4 * Scale, 5 * Scale, 6 * Scale}

\* clean_std: the trusted reference numbers of the spec, in order
CleanStd(raw_spec) ==
    LET mm_nums == SeqToSet(UFloats(FindMmNums(raw_spec, 1)))
        all_nums == UFloats(FindNums(raw_spec, 1))
    IN  SelectSeq(all_nums,
                  LAMBDA n : n \in mm_nums \/ (n \notin Noise /\ n > 5 * Scale))

CjkNumerals == {"yi", "er", "san", "si", "wu", "liu"}

\* Length of a match of [((fw]\d+[))fw] starting at s[i], 0 when there is none
BulletLen(s, i) ==
    IF s[i] \in {"(", "(fw"} /\ i < Len(s) /\ IsDigit(s[i + 1])
    THEN LET e == DigitRunEnd(s, i + 1) IN
         IF e < Len(s) /\ s[e + 1] \in {")", ")fw"} THEN e + 2 - i ELSE 0
    ELSE 0

\* re.split(r"[\n\r]|[<numerals>]|[((fw]\d+[))fw]|[;;fw]", s), from index i on,
\* cur being the part collected so far
RECURSIVE SplitSpec(_, _, _)
SplitSpec(s, i, cur) ==
    IF i > Len(s) THEN <<cur>>
    ELSE IF s[i] \in {"\n", "\r", ";", ";fw"} \cup CjkNumerals
         THEN <<cur>> \o SplitSpec(s, i + 1, <<>>)
    ELSE IF BulletLen(s, i) > 0
         THEN <<cur>> \o SplitSpec(s, i + BulletLen(s, i), <<>>)
    ELSE SplitSpec(s, i + 1, Append(cur, s[i]))

\* clean_part
CleanPart(part) ==
    Strip(RemoveSub(RemoveSub(RemoveChars(part, {" ", "\n"}), <<"m", "m">>, 1),
                    <<"M", "M">>, 1))

\* re.finditer(r"(\d+\.?\d*)?(+-)(\d+\.?\d*)", s) from index i on: the intervals
\* [b - o, b + o]; "pm" is the plus-minus sign
RECURSIVE PmRanges(_, _)
PmRanges(s, i) ==
    IF i > Len(s) THEN <<>>
    ELSE IF IsDigit(s[i])
         THEN LET e == NumEnd(s, i) IN
              IF e + 2 <= Len(s) /\ s[e + 1] = "pm" /\ IsDigit(s[e + 2])
              THEN LET e2 == NumEnd(s, e + 2)
                       b == UFloat(SubSeq(s, i, e))
                       o == UFloat(SubSeq(s, e + 2, e2))
                   IN  <<(<<b - o, b + o>>)>> \o PmRanges(s, e2 + 1)
              ELSE PmRanges(s, i + 1)
    ELSE IF s[i] = "pm" /\ i < Len(s) /\ IsDigit(s[i + 1])
         THEN LET e2 == NumEnd(s, i + 1)
                  o == UFloat(SubSeq(s, i + 1, e2))
              IN  <<(<<0 - o, o>>)>> \o PmRanges(s, e2 + 1)
    ELSE PmRanges(s, i + 1)

\* re.finditer(r"(\d+\.?\d*)[~~fw-](\d+\.?\d*)", s) from index i on: the pairs
RECURSIVE TildePairs(_, _)
TildePairs(s, i) ==
    IF i > Len(s) THEN <<>>
    ELSE IF IsDigit(s[i])
         THEN LET e == NumEnd(s, i) IN
              IF e + 2 <= Len(s) /\ s[e + 1] \in {"~", "~fw", "-"} /\ IsDigit(s[e + 2])
              THEN LET e2 == NumEnd(s, e + 2) IN
                   <<(<<UFloat(SubSeq(s, i, e)), UFloat(SubSeq(s, e + 2, e2))>>)>>
                   \o TildePairs(s, e2 + 1)
              ELSE TildePairs(s, i + 1)
    ELSE TildePairs(s, i + 1)

\* The pairs that pass the magnitude guard abs(n1 - n2) < n1 * 0.5
ValidTilde(pairs) == SelectSeq(pairs, LAMBDA p : 2 * Abs(p[1] - p[2]) < p[1])

TildeRanges(pairs) ==
    LET ok == ValidTilde(pairs) IN
    [i \in 1..Len(ok) |->
        <<IF ok[i][1] <= ok[i][2] THEN ok[i][1] ELSE ok[i][2],
          IF ok[i][1] <= ok[i][2] THEN ok[i][2] ELSE ok[i][1]>>]

\* The base/offset rule with every number of magnitude above 10 a base, and
\* the intervals spanning the sums of base and offset alone
BaseOffsetRangesByMagnitude(clean_part) ==
    LET all_numbers == FindSignedNums(clean_part, 1)
        vals == [i \in 1..Len(all_numbers) |-> SFloat(all_numbers[i])]
        bases == SelectSeq(vals, LAMBDA v : Abs(v) > 10 * Scale)
        offsets == SelectSeq(vals, LAMBDA v : Abs(v) < 10 * Scale)
    IN  [i \in 1..Len(bases) |->
            IF offsets # <<>>
            THEN LET ends == {bases[i] + offsets[j] : j \in 1..Len(offsets)}
                 IN  <<SetMin(ends), SetMax(ends)>>
            ELSE <<bases[i], bases[i]>>]

\* The base/offset rule on the signed numbers of a part
BaseOffsetRanges(clean_part) ==
    LET all_numbers == FindSignedNums(clean_part, 1)
        vals == [i \in 1..Len(all_numbers) |-> SFloat(all_numbers[i])]
        bases == SelectSeq(vals, LAMBDA v : v > 10 * Scale)
        offsets == SelectSeq(vals, LAMBDA v : ~(v > 10 * Scale) /\ Abs(v) < 10 * Scale)
    IN  [i \in 1..Len(bases) |->
            IF offsets # <<>>
            THEN LET ends == {bases[i] + offsets[j] : j \in 1..Len(offsets)}
                           \cup (IF Len(offsets) = 1 THEN {bases[i]} ELSE {})
                 IN  <<SetMin(ends), SetMax(ends)>>
            ELSE <<bases[i], bases[i]>>]

\* The intervals of a part with the pairs given the first place
PartRangesTildeFirst(part) ==
    LET clean_part == CleanPart(part) IN
    IF clean_part = <<>> THEN <<>>
    ELSE IF ValidTilde(TildePairs(clean_part, 1)) # <<>>
         THEN TildeRanges(TildePairs(clean_part, 1))
    ELSE IF PmRanges(clean_part, 1) # <<>> THEN PmRanges(clean_part, 1)
    ELSE BaseOffsetRanges(clean_part)

\* The intervals one part of the spec contributes
PartRanges(part) ==
    LET clean_part == CleanPart(part) IN
    IF clean_part = <<>> THEN <<>>
    ELSE IF PmRanges(clean_part, 1) # <<>> THEN PmRanges(clean_part, 1)
    ELSE IF ValidTilde(TildePairs(clean_part, 1)) # <<>>
         THEN TildeRanges(TildePairs(clean_part, 1))
    ELSE BaseOffsetRanges(clean_part)

RECURSIVE ConcatRanges(_)
ConcatRanges(parts) ==
    IF parts = <<>> THEN <<>>
    ELSE PartRanges(Head(parts)) \o ConcatRanges(Tail(parts))

\* s_ranges
SRanges(raw_spec) == ConcatRanges(SplitSpec(raw_spec, 1, <<>>))

---------------------------------------------------------------------------
(* python_numerical_audit: one measurement                                 *)

SENTINEL == <<"[", "!", "]">>

\* The value strings the loop skips
SkippedValues == {<<>>, <<"N", "/", "A">>, <<"n", "a", "n">>, <<"M", "1", "0">>}

Reason(text, arg) == [text |-> text, arg |-> arg]
R_NONE == Reason("", 0)
R_DAMAGED == Reason("damaged", 0)
R_PURE_INT == Reason("must be pure integer", 0)
R_TOO_SMALL == Reason("value insufficient", 0)
R_INT == Reason("must be integer", 0)
R_TWO_DEC == Reason("must have two decimal places", 0)
R_NOT_IN_RANGE == Reason("not within interval", 0)
\* f"... {target}": the reason text carries the limit
R_EXCEEDS(target) == Reason("exceeds limit", target)

T_NA == [kind |-> "N/A", num |-> 0, ranges |-> <<>>]
T_NUM(n) == [kind |-> "number", num |-> n, ranges |-> <<>>]
T_RANGES(rs) == [kind |-> "ranges", num |-> 0, ranges |-> rs]

\* is_two_dec, is_pure_int of a value string
IsTwoDec(val_str) ==
    DotAt(val_str) > 0 /\ Len(val_str) - DotAt(val_str) = 2
IsPureInt(val_str) == DotAt(val_str) = 0

\* min(clean_std, key=lambda x: abs(x - val)): the first nearest one
Nearest(std, val) ==
    LET i == CHOOSE i \in 1..Len(std) :
                /\ \A j \in 1..Len(std) : Abs(std[i] - val) <= Abs(std[j] - val)
                /\ \A j \in 1..(i - 1) : Abs(std[j] - val) > Abs(std[i] - val)
    IN  std[i]

SeqMax(q) == SetMax(SeqToSet(q))

JournalThree == {KW_JOURNAL_JING, KW_JOURNAL_TOU, KW_JOURNAL_WEI}
RangeTitleKeywords ==
    {KW_REGEN_ZH, KW_FINISH, KW_GRIND_ZH, KW_TURN_FIX, KW_ASSEMBLE,
     KW_DISASSEMBLE, KW_ROUND}

\* title, cat, l_type as the loop reads them from the item
TitleOf(item) == RemoveChars(item.item_title, {" ", "\""})
CatOf(item) == Strip(item.category)
LTypeOf(item) == item.lt
CatTitle(item) == CatOf(item) \o TitleOf(item)

\* "SKIP" in l_type.upper() or "EXEMPT" in l_type.upper()
LTypeExempt(l_type) == ContainsAny(Upper(l_type), {KW_SKIP, KW_EXEMPT})

\* The chain of rules applied to one parsed value.  v is
\* [failed, reason, label, t_used] as it stands before the chain: a damaged
\* value enters it already failed, with val = -999.0 and both format flags set.
WeldRule(v, std, val, pure_int) ==
    IF ~pure_int
    THEN [v EXCEPT !.failed = TRUE, !.reason = R_PURE_INT, !.label = "weld"]
    ELSE IF std # <<>>
         THEN IF val < Nearest(std, val)
              THEN [v EXCEPT !.failed = TRUE, !.reason = R_TOO_SMALL,
                             !.label = "weld", !.t_used = T_NUM(Nearest(std, val))]
              ELSE [v EXCEPT !.label = "weld", !.t_used = T_NUM(Nearest(std, val))]
         ELSE [v EXCEPT !.label = "weld"]

\* UnRegenRule with the threshold itself counted as above the threshold
UnRegenRuleStrict(v, target, val, pure_int, two_dec) ==
    LET w == [v EXCEPT !.label = "un_regen", !.t_used = T_NUM(target)] IN
    IF val < target
    THEN IF ~pure_int THEN [w EXCEPT !.failed = TRUE, !.reason = R_INT] ELSE w
    ELSE IF ~two_dec THEN [w EXCEPT !.failed = TRUE, !.reason = R_TWO_DEC] ELSE w

UnRegenRule(v, target, val, pure_int, two_dec) ==
    LET w == [v EXCEPT !.label = "un_regen", !.t_used = T_NUM(target)] IN
    IF val <= target
    THEN IF ~pure_int THEN [w EXCEPT !.failed = TRUE, !.reason = R_INT] ELSE w
    ELSE IF ~two_dec THEN [w EXCEPT !.failed = TRUE, !.reason = R_TWO_DEC] ELSE w

MaxLimitRule(v, std, val, pure_int) ==
    LET target == IF std # <<>> THEN SeqMax(std) ELSE 0
        w == [v EXCEPT !.label = "journal limit", !.t_used = T_NUM(target)]
    IN  IF target > 0
        THEN IF ~pure_int THEN [w EXCEPT !.failed = TRUE, !.reason = R_PURE_INT]
             ELSE IF val > target
                  THEN [w EXCEPT !.failed = TRUE, !.reason = R_EXCEEDS(target)]
                  ELSE w
        ELSE w

\* RangeRule without the test of the two decimal places
RangeRuleNoFormat(v, ranges, val, two_dec) ==
    LET w == [v EXCEPT !.label = "finishing"] IN
    IF ranges # <<>>
    THEN IF ~(\E i \in 1..Len(ranges) : ranges[i][1] <= val /\ val <= ranges[i][2])
         THEN [w EXCEPT !.failed = TRUE, !.reason = R_NOT_IN_RANGE,
                        !.t_used = T_RANGES(ranges)]
         ELSE [w EXCEPT !.t_used = T_RANGES(ranges)]
    ELSE w

RangeRule(v, ranges, val, two_dec) ==
    LET w == [v EXCEPT !.label = "finishing"] IN
    IF ~two_dec THEN [w EXCEPT !.failed = TRUE, !.reason = R_TWO_DEC]
    ELSE IF ranges # <<>>
         THEN IF ~(\E i \in 1..Len(ranges) : ranges[i][1] <= val /\ val <= ranges[i][2])
              THEN [w EXCEPT !.failed = TRUE, !.reason = R_NOT_IN_RANGE,
                             !.t_used = T_RANGES(ranges)]
              ELSE [w EXCEPT !.t_used = T_RANGES(ranges)]
         ELSE w

\* Which rule of the chain an item falls under
UnderWeld(item) ==
    Contains(LTypeOf(item), CAT_MIN) \/ Contains(CatTitle(item), KW_WELD_BU)
UnderMaxLimit(item) ==
    \/ LTypeOf(item) = CAT_MAX
    \/ /\ ContainsAny(CatTitle(item), JournalThree)
       /\ Contains(CatTitle(item), KW_UNREGEN_ZH)
UnderRange(item) ==
    \/ LTypeOf(item) = CAT_RANGE
    \/ /\ ContainsAny(CatTitle(item), RangeTitleKeywords)
       /\ ~Contains(CatTitle(item), KW_UNREGEN_ZH)

\* What becomes of one segment of ds: kind is
\*   "malformed" (no colon: not an entry), "skipped" (empty, N/A, nan, M10),
\*   "dropped" (float() raises, the except clause continues),
\*   "exempt" (the logic type says skip), "passed" or "failed"
Audit(item, std, ranges, target, seg) ==
    LET none == [kind |-> "", val_str |-> <<>>, reason |-> R_NONE,
                 label |-> "unknown", t_used |-> T_NA]
    IN
    IF Len(seg.fields) < 2 THEN [none EXCEPT !.kind = "malformed"]
    ELSE
    LET val_raw == RemoveChars(Strip(seg.fields[2]), {" "})
        damaged == Contains(val_raw, SENTINEL)
        v_m == FindNums(val_raw, 1)
        val_str == IF damaged THEN SENTINEL
                   ELSE IF v_m # <<>> THEN v_m[1] ELSE val_raw
    IN
    IF val_raw \in SkippedValues THEN [none EXCEPT !.kind = "skipped"]
    ELSE IF ~damaged /\ v_m = <<>> THEN [none EXCEPT !.kind = "dropped"]
    ELSE
    LET val == IF damaged THEN 0 - 999 * Scale ELSE UFloat(val_str)
        two_dec == IF damaged THEN TRUE ELSE IsTwoDec(val_str)
        pure_int == IF damaged THEN TRUE ELSE IsPureInt(val_str)
        v0 == [failed |-> damaged,
               reason |-> IF damaged THEN R_DAMAGED ELSE R_NONE,
               label |-> "unknown", t_used |-> T_NA]
        v == IF UnderWeld(item) THEN WeldRule(v0, std, val, pure_int)
             ELSE IF target # <<>>
                  THEN UnRegenRule(v0, target[1], val, pure_int, two_dec)
             ELSE IF UnderMaxLimit(item) THEN MaxLimitRule(v0, std, val, pure_int)
             ELSE IF UnderRange(item) THEN RangeRule(v0, ranges, val, two_dec)
             ELSE v0
    IN
    IF LTypeExempt(LTypeOf(item))
    THEN [none EXCEPT !.kind = "exempt", !.val_str = val_str]
    ELSE [kind |-> IF v.failed THEN "failed" ELSE "passed", val_str |-> val_str,
          reason |-> v.reason, label |-> v.label, t_used |-> v.t_used]

\* s_threshold = logic.get("t", 0): the extraction record has no "t"
SThreshold(item) == 0

\* un_regen_target of an item: <<>> for None
UnRegenTarget(item, std) ==
    LET l_type == LTypeOf(item) IN
    IF \/ LTypeExempt(l_type)
       \/ Contains(l_type, KW_EXEMPT_ZH)
       \/ l_type \in {CAT_RANGE, CAT_MAX, CAT_MIN}
    THEN <<>>
    ELSE IF \/ l_type \in {CAT_UNREGEN, KW_UNREGEN_ZH}
            \/ /\ Contains(CatTitle(item), KW_UNREGEN_ZH)
               /\ ~ContainsAny(CatTitle(item), JournalThree)
         THEN LET cands == {std[i] : i \in {j \in 1..Len(std) : std[j] >= 120 * Scale}}
                           \cup (IF SThreshold(item) >= 120 * Scale
                                 THEN {SThreshold(item)} ELSE {})
              IN  IF cands # {} THEN <<SetMax(cands)>> ELSE <<>>
         ELSE <<>>

\* The keyword exemption and the rule exemption of an item
NumHeatSkip(item) ==
    ContainsAny(Upper(TitleOf(item)), {KW_BALANCE_ZH, KW_BALANCING, KW_HEAT_ZH, KW_HEAT})
NumRuleSkip(item) ==
    /\ item.rule_set.hit
    /\ ContainsAny(Upper(item.rule_set.u_local), {KW_SKIP, KW_EXEMPT, KW_EXEMPT_ZH})

\* grouped_errors[key]["failures"].append(row), the group created on first use
GroupIndex(groups, page, title, reason) ==
    IF \E i \in 1..Len(groups) :
          groups[i].page = page /\ groups[i].item = title
          /\ groups[i].common_reason = reason
    THEN CHOOSE i \in 1..Len(groups) :
          groups[i].page = page /\ groups[i].item = title
          /\ groups[i].common_reason = reason
    ELSE 0

\* AddFailure that starts the group's list again at every failure
AddFailureReplacing(groups, page, title, a, rid) ==
    LET row == [id |-> rid, val |-> a.val_str, target |-> a.t_used]
        i == GroupIndex(groups, page, title, a.reason)
    IN  IF i = 0
        THEN Append(groups, [page |-> page, item |-> title,
                             issue_type |-> a.label, common_reason |-> a.reason,
                             failures |-> <<row>>, source |-> "numerical"])
        ELSE [groups EXCEPT ![i].failures = <<row>>]

AddFailure(groups, page, title, a, rid) ==
    LET row == [id |-> rid, val |-> a.val_str, target |-> a.t_used]
        i == GroupIndex(groups, page, title, a.reason)
    IN  IF i = 0
        THEN Append(groups, [page |-> page, item |-> title,
                             issue_type |-> a.label, common_reason |-> a.reason,
                             failures |-> <<row>>, source |-> "numerical"])
        ELSE [groups EXCEPT ![i].failures = Append(@, row)]

---------------------------------------------------------------------------
(* python_numerical_audit: the loops                                       *)

MaxItems == 2
MaxEntries == 2

\* Titles of the items
T_REGEN == KW_BODY \o KW_REGEN_ZH
T_UNREGEN == KW_BODY \o KW_UNREGEN_ZH
T_JOURNAL == KW_JOURNAL_JING \o KW_UNREGEN_ZH
T_WELD == KW_BODY \o KW_WELD_BU
T_ROUND == KW_ROUND
T_HEAT == KW_HEAT_ZH
T_TREATING == <<"T", "r", "e", "a", "t", "i", "n", "g">>
T_PLAIN == <<"jian", "yan">>

\* std_spec texts: "300(+-)0.1mm", "196" and the empty text
S_PM == <<"3", "0", "0", "pm", "0", ".", "1", "m", "m">>
S_196 == <<"1", "9", "6">>
S_NONE == <<>>

\* std_spec texts for the parser of the intervals, one notation or several in
\* one part: "(+-)0.5", "150~155", "155-150", "160-0.01", "150~155;160-0.01",
\* "150~155,160-0.01", "300(+-)0.1,150~155", "160+0.05-0.02", "160", "50-20",
\* "OK", "10" and "5"
S_PM_BARE == <<"pm", "0", ".", "5">>
S_TILDE == <<"1", "5", "0", "~", "1", "5", "5">>
S_TILDE_DOWN == <<"1", "5", "5", "-", "1", "5", "0">>
S_TOLERANCE == <<"1", "6", "0", "-", "0", ".", "0", "1">>
S_TWO_PARTS == S_TILDE \o <<";">> \o S_TOLERANCE
S_MIXED == S_TILDE \o <<",">> \o S_TOLERANCE
S_PM_TILDE == <<"3", "0", "0", "pm", "0", ".", "1", ",">> \o S_TILDE
S_OFFSETS == <<"1", "6", "0", "+", "0", ".", "0", "5", "-", "0", ".", "0", "2">>
S_BASE == <<"1", "6", "0">>
S_MINUS == <<"5", "0", "-", "2", "0">>
S_WORD == <<"O", "K">>
S_TEN == <<"1", "0">>
S_FIVE == <<"5">>

ParserSpecs ==
    {S_PM, S_PM_BARE, S_TILDE, S_TILDE_DOWN, S_TOLERANCE, S_TWO_PARTS, S_MIXED,
     S_PM_TILDE, S_OFFSETS, S_BASE, S_MINUS, S_WORD, S_TEN, S_FIVE}

\* Value texts of the measurements
V_196 == <<"1", "9", "6">>
V_200 == <<"2", "0", "0">>
V_200_00 == <<"2", "0", "0", ".", "0", "0">>
V_300_05 == <<"3", "0", "0", ".", "0", "5">>
V_300_15 == <<"3", "0", "0", ".", "1", "5">>
V_NA == <<"N", "/", "A">>
V_WORD == <<"O", "K">>

ID_1 == <<"R", "1">>
ID_2 == <<"R", "2">>

\* What the run draws its items and measurements from: one item with every
\* title, category, spec and value, or several items of two titles
DomTitles(d) ==
    IF d = "single"
    THEN {T_REGEN, T_UNREGEN, T_JOURNAL, T_WELD, T_ROUND, T_HEAT, T_TREATING, T_PLAIN}
    ELSE {T_REGEN, T_WELD}
DomSpecs(d) ==
    IF d = "single" THEN {S_PM, S_196, S_NONE}
    ELSE IF d = "parser" THEN ParserSpecs
    ELSE {S_PM}
DomPages(d) == IF d \in {"single", "parser"} THEN {1} ELSE {1, 2}
DomIds(d) == IF d = "single" THEN {ID_1} ELSE {ID_1, ID_2}
DomValues(d) ==
    IF d = "single"
    THEN {V_196, V_200, V_200_00, V_300_05, V_300_15, SENTINEL, V_NA, V_WORD}
    ELSE {V_300_05, V_300_15, SENTINEL}
DomItems(d) == IF d \in {"single", "parser"} THEN 1 ELSE MaxItems

\* The categories the classifier can have given a title: the keyword override,
\* else whatever a matching row of the rule table names, else the keywords
CategoriesOf(d, title) ==
    IF HasExemptKeyword(title) THEN {CAT_EXEMPT}
    ELSE IF d = "single"
         THEN {KeywordCategory(title), CAT_EXEMPT, CAT_RANGE, CAT_MIN, CAT_MAX,
               CAT_UNREGEN}
         ELSE {KeywordCategory(title)}

\* The outcome of the rule lookup for the title: no rule, or a rule and its
\* Unit_Rule_Local cell
RuleSets ==
    {[hit |-> FALSE, u_local |-> <<>>],
     [hit |-> TRUE, u_local |-> <<"1", "/", "2">>],
     [hit |-> TRUE, u_local |-> <<"s", "k", "i", "p">>]}

\* The items as the pipeline hands them over: category and sl.lt both hold the
\* classifier's answer
Items(d) ==
    {[page |-> pg, item_title |-> t, category |-> c, lt |-> c, std_spec |-> sp,
      rule_set |-> rs, ds_empty |-> e] :
        pg \in DomPages(d), t \in DomTitles(d),
        c \in UNION {CategoriesOf(d, x) : x \in DomTitles(d)},
        sp \in DomSpecs(d), rs \in RuleSets, e \in BOOLEAN}

\* The segments of ds: "id:value", or a segment without a colon
Segments(d) ==
    {[fields |-> <<rid, v>>] : rid \in DomIds(d), v \in DomValues(d)}
        \cup {[fields |-> <<ID_1>>]}

ItemSkipped(item) == item.ds_empty \/ NumHeatSkip(item) \/ NumRuleSkip(item)

\* The fields of an item that its iteration reads after the skip tests
Header(item) ==
    [page |-> item.page, item_title |-> item.item_title,
     category |-> item.category, lt |-> item.lt, std_spec |-> item.std_spec]

NumStart(d) ==
    /\ n_domain = d
    /\ n_pc = "start"
    /\ n_items = 0
    /\ n_count = 0
    /\ n_item = NoItem
    /\ clean_std = <<>>
    /\ s_ranges = <<>>
    /\ un_regen_target = <<>>
    /\ grouped_errors = <<>>
    /\ n_result = <<>>
    /\ n_last = NoEntry
    /\ n_failed = 0
    /\ ClsIdle /\ ConIdle /\ AccIdle /\ ProcIdle /\ ExtIdle

NumInit == NumStart("single")

BatchInit == NumStart("batch")

\* One item, with every spec text of the parser
ParserInit == NumStart("parser")

\* if not dimension_data: return []
NumNoData ==
    /\ n_pc = "start"
    /\ n_pc' = "done"
    /\ n_result' = <<>>
    /\ UNCHANGED <<n_domain, n_items, n_count, n_item, clean_std, s_ranges,
                   un_regen_target, grouped_errors, n_last, n_failed>>
    /\ UNCHANGED <<clsVars, conVars, accVars, procVars, extVars>>

\* The rule table is read once, before the loop
NumLoadRules ==
    /\ n_pc = "start"
    /\ n_pc' = "items"
    /\ UNCHANGED <<n_domain, n_items, n_count, n_item, clean_std, s_ranges,
                   un_regen_target, grouped_errors, n_result, n_last, n_failed>>
    /\ UNCHANGED <<clsVars, conVars, accVars, procVars, extVars>>

\* An item the loop passes over: no ds, an exempt keyword in the title, or a
\* rule that says skip
NumSkipItem ==
    /\ n_pc = "items"
    /\ n_items < DomItems(n_domain)
    /\ \E item \in Items(n_domain) :
         /\ item.category \in CategoriesOf(n_domain, item.item_title)
         /\ ItemSkipped(item)
    /\ n_items' = n_items + 1
    /\ n_last' = NoEntry
    /\ UNCHANGED <<n_domain, n_pc, n_count, n_item, clean_std, s_ranges,
                   un_regen_target, grouped_errors, n_result, n_failed>>
    /\ UNCHANGED <<clsVars, conVars, accVars, procVars, extVars>>

\* An item the loop audits: the trusted numbers, the intervals and the
\* un-regenerated threshold are computed before its measurements are read
NumBeginItem ==
    /\ n_pc = "items"
    /\ n_items < DomItems(n_domain)
    /\ \E item \in Items(n_domain) :
         /\ item.category \in CategoriesOf(n_domain, item.item_title)
         /\ ~ItemSkipped(item)
         /\ n_item' = Header(item)
         /\ clean_std' = CleanStd(RawSpec(item.std_spec))
         /\ s_ranges' = SRanges(RawSpec(item.std_spec))
         /\ un_regen_target' = UnRegenTarget(item, CleanStd(RawSpec(item.std_spec)))
    /\ n_items' = n_items + 1
    /\ n_pc' = "entries"
    /\ n_last' = NoEntry
    /\ UNCHANGED <<n_domain, n_count, grouped_errors, n_result, n_failed>>
    /\ UNCHANGED <<clsVars, conVars, accVars, procVars, extVars>>

\* One segment of ds
NumEntry ==
    /\ n_pc = "entries"
    /\ n_count < MaxEntries
    /\ \E seg \in Segments(n_domain) :
         LET a == Audit(n_item, clean_std, s_ranges, un_regen_target, seg)
         IN  /\ n_last' = [fields |-> seg.fields, kind |-> a.kind,
                           val_str |-> a.val_str, reason |-> a.reason,
                           label |-> a.label, t_used |-> a.t_used]
             /\ IF a.kind = "failed"
                THEN /\ grouped_errors' =
                          AddFailure(grouped_errors, n_item.page, TitleOf(n_item),
                                     a, RemoveChars(Strip(seg.fields[1]), {" "}))
                     /\ n_failed' = n_failed + 1
                ELSE UNCHANGED <<grouped_errors, n_failed>>
    /\ n_count' = n_count + 1
    /\ UNCHANGED <<n_domain, n_pc, n_items, n_item, clean_std, s_ranges,
                   un_regen_target, n_result>>
    /\ UNCHANGED <<clsVars, conVars, accVars, procVars, extVars>>

\* The last segment of the item has been read
NumEndItem ==
    /\ n_pc = "entries"
    /\ n_pc' = "items"
    /\ UNCHANGED <<n_domain, n_items, n_count, n_item, clean_std, s_ranges,
                   un_regen_target, grouped_errors, n_result, n_last, n_failed>>
    /\ UNCHANGED <<clsVars, conVars, accVars, procVars, extVars>>

\* return list(grouped_errors.values())
NumReturn ==
    /\ n_pc = "items"
    /\ n_pc' = "done"
    /\ n_result' = grouped_errors
    /\ UNCHANGED <<n_domain, n_items, n_count, n_item, clean_std, s_ranges,
                   un_regen_target, grouped_errors, n_last, n_failed>>
    /\ UNCHANGED <<clsVars, conVars, accVars, procVars, extVars>>

Next ==
    \/ NumNoData
    \/ NumLoadRules
    \/ NumSkipItem
    \/ NumBeginItem
    \/ NumEntry
    \/ NumEndItem
    \/ NumReturn

Spec == NumInit /\ [][Next]_vars

SpecBatch == BatchInit /\ [][Next]_vars

SpecParser == ParserInit /\ [][Next]_vars

---------------------------------------------------------------------------
(* Properties of python_numerical_audit                                    *)

RECURSIVE SumRows(_)
SumRows(groups) ==
    IF groups = <<>> THEN 0
    ELSE Len(groups[1].failures) + SumRows(Tail(groups))

\* The measurement read last was judged: it passed or it failed
Judged == n_last.kind \in {"passed", "failed"}
Passed == n_last.kind = "passed"
LastValue == IF Len(n_last.fields) >= 2 THEN n_last.fields[2] ELSE <<>>
LastDamaged == Contains(LastValue, SENTINEL)

\* The terms of the rules, read off the value string of the measurement
PureInteger(vs) == vs # <<>> /\ \A i \in 1..Len(vs) : IsDigit(vs[i])
TwoDecimals(vs) ==
    /\ Len(vs) >= 4
    /\ vs[Len(vs) - 2] = "."
    /\ \A i \in (1..Len(vs)) \ {Len(vs) - 2} : IsDigit(vs[i])
NumberOf(vs) == IF vs = SENTINEL THEN 0 ELSE UFloat(vs)
InSomeInterval(x, ranges) ==
    \E i \in 1..Len(ranges) : ranges[i][1] <= x /\ x <= ranges[i][2]
TrustedFrom120 == {clean_std[i] : i \in {j \in 1..Len(clean_std) : clean_std[j] >= 120 * Scale}}

\* C1: the rows in the failures lists of all groups are as many as the
\* measurements found failing: none is counted twice, none is lost; and the
\* returned list carries exactly these rows.
C1_RowsEqualFailures ==
    /\ SumRows(grouped_errors) = n_failed
    /\ n_pc = "done" => SumRows(n_result) = n_failed

\* Two failing measurements of two items end in one returned group
C1_Witness ==
    /\ n_pc = "done"
    /\ n_items = 2
    /\ n_failed = 2
    /\ Len(n_result) = 1
    /\ Len(n_result[1].failures) = 2

\* C3: a measurement whose value carries the damage mark always yields a
\* failure row with the reason "damaged", whatever the category and the title
\* of its item.
C3_DamagedAlwaysReported ==
    LastDamaged => n_last.kind = "failed" /\ n_last.reason = R_DAMAGED

\* C4: no measurement of an item of category exempt or unknown is reported.
C4_ExemptUnknownSilent ==
    n_last.kind = "failed" => n_item.category \notin {CAT_EXEMPT, CAT_UNKNOWN}

TitleClaimsWeld == Contains(TitleOf(n_item), KW_WELD_BU)
TitleClaimsJournal ==
    /\ ContainsAny(TitleOf(n_item), JournalThree)
    /\ Contains(TitleOf(n_item), KW_UNREGEN_ZH)

C7_MaxLimitRule ==
    (Judged /\ n_item.category = CAT_MAX) =>
        (Passed <=> /\ PureInteger(n_last.val_str)
                    /\ \A i \in 1..Len(clean_std) : 
                          NumberOf(n_last.val_str) <= SeqMax(clean_std))

---------------------------------------------------------------------------
(* consolidate_issues                                                      *)

MaxIssues == 2

\* str(n) of a page number
DigitChar(d) ==
    CASE d = 0 -> "0" [] d = 1 -> "1" [] d = 2 -> "2" [] d = 3 -> "3"
      [] d = 4 -> "4" [] d = 5 -> "5" [] d = 6 -> "6" [] d = 7 -> "7"
      [] d = 8 -> "8" [] d = 9 -> "9"

RECURSIVE IntStr(_)
IntStr(n) ==
    IF n < 10 THEN <<DigitChar(n)>>
    ELSE Append(IntStr(n \div 10), DigitChar(n % 10))

\* The page of an issue: a number, a text, or no page at all
PageInt(n) == [kind |-> "int", num |-> n, text |-> <<>>]
PageText(t) == [kind |-> "str", num |-> 0, text |-> t]
PageNone == [kind |-> "none", num |-> 0, text |-> <<>>]

\* str(i.get('page', '?'))
PageStr(page) ==
    CASE page.kind = "int" -> IntStr(page.num)
      [] page.kind = "str" -> page.text
      [] page.kind = "none" -> <<"?">>

\* x.isdigit()
IsDigitStr(x) == x # <<>> /\ \A i \in 1..Len(x) : IsDigit(x[i])

NON_NUMERIC_KEY == 999

\* A sort key that ignores the numbers
PageKeyFlat(x) == NON_NUMERIC_KEY

\* key=lambda x: int(x) if x.isdigit() else 999
PageKey(x) == IF IsDigitStr(x) THEN DigitsVal(x) ELSE NON_NUMERIC_KEY

\* ", ".join(pages)
RECURSIVE JoinPages(_)
JoinPages(pages) ==
    IF pages = <<>> THEN <<>>
    ELSE IF Len(pages) = 1 THEN pages[1]
    ELSE pages[1] \o <<",", " ">> \o JoinPages(Tail(pages))

\* The orders sorted() can give the set: every arrangement with the keys not
\* descending (equal keys keep the order in which the set yields them)
SortedPages(pages_set) ==
    {p \in [1..Cardinality(pages_set) -> pages_set] :
        /\ \A a, b \in 1..Cardinality(pages_set) : a # b => p[a] # p[b]
        /\ \A a, b \in 1..Cardinality(pages_set) :
              a < b => PageKey(p[a]) <= PageKey(p[b])}

\* key = (item, issue_type, common_reason)
KeyOf(i) == <<i.item, i.issue_type, i.common_reason>>

\* The first issue's list copied twice over
FirstFailuresTwice(i) == i.failures \o i.failures

\* i.get('failures', []).copy(): the card starts with a list of its own
FirstFailures(i) == i.failures

\* The card's list is the very list of the issue
ListShared(idx) == idx

\* .copy() makes a new list: the card shares its list with no issue (0)
ListOwner(idx) == 0

IssueKeys ==
    {<<"A", "t1", "r1">>, <<"B", "t1", "r1">>, <<"A", "t1", "r2">>}
IssuePages == {PageInt(2), PageInt(10), PageNone}
IssueFailures == {<<>>, <<"e1">>, <<"e2">>}

Issues ==
    {[item |-> k[1], issue_type |-> k[2], common_reason |-> k[3],
      page |-> pg, failures |-> f] :
        k \in IssueKeys, pg \in IssuePages, f \in IssueFailures}

IssueLists == UNION {[1..n -> Issues] : n \in 0..MaxIssues}

CardIndex(grouped, key) ==
    IF \E j \in 1..Len(grouped) : KeyOf(grouped[j]) = key
    THEN CHOOSE j \in 1..Len(grouped) : KeyOf(grouped[j]) = key
    ELSE 0

ConInit ==
    /\ k_issues \in IssueLists
    /\ k_orig = k_issues
    /\ k_pc = "group"
    /\ k_pass = 1
    /\ k_i = 0
    /\ k_grouped = <<>>
    /\ k_result = <<>>
    /\ k_first = <<>>
    /\ ClsIdle /\ NumIdle /\ AccIdle /\ ProcIdle /\ ExtIdle

\* One iteration of the first loop
ConGroupIssue ==
    /\ k_pc = "group"
    /\ k_i < Len(k_issues)
    /\ LET i == k_issues[k_i + 1]
           j == CardIndex(k_grouped, KeyOf(i))
       IN  IF j = 0
           THEN /\ k_grouped' =
                     Append(k_grouped,
                            [item |-> i.item, issue_type |-> i.issue_type,
                             common_reason |-> i.common_reason, page |-> i.page,
                             pages_set |-> {PageStr(i.page)},
                             failures |-> FirstFailures(i),
                             shared |-> ListOwner(k_i + 1)])
                /\ UNCHANGED k_issues
           ELSE /\ k_grouped' =
                     [k_grouped EXCEPT
                        ![j].pages_set = @ \cup {PageStr(i.page)},
                        ![j].failures = @ \o i.failures]
                \* extend() changes the list in place: an issue that shares the
                \* list sees it grow
                /\ k_issues' =
                     IF k_grouped[j].shared = 0 THEN k_issues
                     ELSE [k_issues EXCEPT
                             ![k_grouped[j].shared].failures = @ \o i.failures]
    /\ k_i' = k_i + 1
    /\ UNCHANGED <<k_orig, k_pc, k_pass, k_result, k_first>>
    /\ UNCHANGED <<clsVars, numVars, accVars, procVars, extVars>>

\* The first loop is over
ConGrouped ==
    /\ k_pc = "group"
    /\ k_i = Len(k_issues)
    /\ k_pc' = "emit"
    /\ k_i' = 0
    /\ UNCHANGED <<k_issues, k_orig, k_pass, k_grouped, k_result, k_first>>
    /\ UNCHANGED <<clsVars, numVars, accVars, procVars, extVars>>

\* One iteration of the second loop
ConEmitCard ==
    /\ k_pc = "emit"
    /\ k_i < Len(k_grouped)
    /\ LET val == k_grouped[k_i + 1] IN
       \E sorted_pages \in SortedPages(val.pages_set) :
          k_result' =
             Append(k_result,
                    [item |-> val.item, issue_type |-> val.issue_type,
                     common_reason |-> val.common_reason,
                     page |-> PageText(JoinPages(sorted_pages)),
                     failures |-> val.failures])
    /\ k_i' = k_i + 1
    /\ UNCHANGED <<k_issues, k_orig, k_pc, k_pass, k_grouped, k_first>>
    /\ UNCHANGED <<clsVars, numVars, accVars, procVars, extVars>>

\* return result
ConReturn ==
    /\ k_pc = "emit"
    /\ k_i = Len(k_grouped)
    /\ k_pc' = "done"
    /\ k_first' = IF k_pass = 1 THEN k_result ELSE k_first
    /\ UNCHANGED <<k_issues, k_orig, k_pass, k_i, k_grouped, k_result>>
    /\ UNCHANGED <<clsVars, numVars, accVars, procVars, extVars>>

\* The function is called again, on the list it returned
ConAgain ==
    /\ k_pc = "done"
    /\ k_pass = 1
    /\ k_issues' = k_result
    /\ k_orig' = k_result
    /\ k_pc' = "group"
    /\ k_pass' = 2
    /\ k_i' = 0
    /\ k_grouped' = <<>>
    /\ k_result' = <<>>
    /\ UNCHANGED k_first
    /\ UNCHANGED <<clsVars, numVars, accVars, procVars, extVars>>

ConNext ==
    \/ ConGroupIssue
    \/ ConGrouped
    \/ ConEmitCard
    \/ ConReturn
    \/ ConAgain

SpecConsolidate == ConInit /\ [][ConNext]_vars

\* The issues of the argument that bear a key, and what consolidating them
\* should give
WithKey(issues, key) == SelectSeq(issues, LAMBDA i : KeyOf(i) = key)

RECURSIVE ConcatFailures(_)
ConcatFailures(issues) ==
    IF issues = <<>> THEN <<>>
    ELSE issues[1].failures \o ConcatFailures(Tail(issues))

RECURSIVE CountRows(_)
CountRows(issues) ==
    IF issues = <<>> THEN 0 ELSE Len(issues[1].failures) + CountRows(Tail(issues))

PagesOf(issues) == {PageStr(issues[j].page) : j \in 1..Len(issues)}

\* p lists each page of the set once, the numeric ones in ascending order
AscendingUnion(p, pages) ==
    /\ Len(p) = Cardinality(pages)
    /\ {p[a] : a \in 1..Len(p)} = pages
    /\ \A a, b \in 1..Len(p) :
          (a < b /\ IsDigitStr(p[a]) /\ IsDigitStr(p[b]))
              => DigitsVal(p[a]) < DigitsVal(p[b])

\* C8: consolidating the list consolidate_issues returned gives the same list:
\* the same cards in the same order, with the same page text and evidence.
C8_Idempotent ==
    (k_pass = 2 /\ k_pc = "done") => k_result = k_first

\* A second call on a list in which two issues of pages 10 and 2 were merged
C8_Witness ==
    /\ k_pass = 2
    /\ k_pc = "done"
    /\ Len(k_first) = 1
    /\ k_first[1].page = PageText(<<"2", ",", " ", "1", "0">>)
    /\ Len(k_first[1].failures) = 2

\* C9: the returned list has exactly one card for each key of the argument;
\* the card's page lists the pages of the merged issues once each, the numeric
\* ones ascending; its evidence is the evidence of the merged issues, one list
\* after the other; no row is lost or added, and the argument is left as it was.
C9_OneCardPerKey ==
    k_pc = "done" =>
        /\ Len(k_result) = Cardinality({KeyOf(k_orig[j]) : j \in 1..Len(k_orig)})
        /\ \A c \in 1..Len(k_result) :
              LET merged == WithKey(k_orig, KeyOf(k_result[c])) IN
              /\ merged # <<>>
              /\ \A d \in 1..Len(k_result) :
                    KeyOf(k_result[d]) = KeyOf(k_result[c]) => d = c
              /\ k_result[c].failures = ConcatFailures(merged)
              /\ \E p \in [1..Cardinality(PagesOf(merged)) -> PagesOf(merged)] :
                    /\ AscendingUnion(p, PagesOf(merged))
                    /\ k_result[c].page = PageText(JoinPages(p))
        /\ CountRows(k_result) = CountRows(k_orig)
        /\ k_issues = k_orig

\* Two issues of one key, on pages 10 and 2, each with its evidence row
C9_Witness ==
    /\ k_pass = 1
    /\ k_pc = "done"
    /\ Len(k_orig) = 2
    /\ k_orig[1].page = PageInt(10)
    /\ k_orig[2].page = PageInt(2)
    /\ Len(k_result) = 1
    /\ k_result[1].page = PageText(<<"2", ",", " ", "1", "0">>)
    /\ k_result[1].failures = <<"e1", "e2">>

---------------------------------------------------------------------------
(* python_accounting_audit: the rule table, the summary rows, the items    *)
(* with their buckets, and the settlement                                  *)

\* Longest summary table, in rows
MaxSummary == 2
\* Longest dimension_data, in items
MaxAccItems == 2

\* None, as the value of a field
NONE == <<"None">>

Q_0 == <<"0">>
Q_1 == <<"1">>
Q_2 == <<"2">>
Q_4 == <<"4">>
Q_5 == <<"5">>
Q_10 == <<"1", "0">>
Q_NULL == <<"n", "u", "l", "l">>
Q_DOTS == <<"1", ".", "2", ".", "3">>

\* What safe_float returns: a number, or the text "BAD_DATA"
Num(n) == [bad |-> FALSE, num |-> n]
BAD_DATA == [bad |-> TRUE, num |-> 0]

\* "".join(re.findall(r"[\d\.]+", text.replace(',', '')))
DigitsAndDots(text) == SelectSeq(text, LAMBDA c : IsDigit(c) \/ c = ".")

DotCount(text) == Len(SelectSeq(text, LAMBDA c : c = "."))

\* float(cleaned) of a text of digits and dots, 0.0 when float() raises
FloatOrZero(cleaned) ==
    IF cleaned = <<>> \/ DotCount(cleaned) > 1 \/ DotCount(cleaned) = Len(cleaned)
    THEN 0
    ELSE IF cleaned[1] = "." THEN UFloat(<<"0">> \o cleaned)
    ELSE UFloat(cleaned)

\* safe_float(value)
safe_float(value) ==
    IF value = NONE \/ Upper(value) = <<"N", "U", "L", "L">> THEN Num(0)
    ELSE IF Contains(value, SENTINEL) THEN BAD_DATA
    ELSE Num(FloatOrZero(DigitsAndDots(RemoveChars(value, {","}))))

\* The 0.01 of the comparisons
TOLERANCE == 100

\* The tracker as a list that takes one more entry for every row read
TrackerPutAppend(tracker, title, entry) == Append(tracker, entry)

\* global_sum_tracker[s_title] = {...}: a later row of the same title takes
\* the place of the earlier one
TrackerPut(tracker, title, entry) ==
    IF \E j \in 1..Len(tracker) : tracker[j].title = title
    THEN [j \in 1..Len(tracker) |->
            IF tracker[j].title = title THEN entry ELSE tracker[j]]
    ELSE Append(tracker, entry)

\* re.search(r"(\d+)\s*/\s*(\d+)", rule_str), from index i on: the two
\* groups, <<>> when nothing matches
RECURSIVE RatioAt(_, _)
RatioAt(s, i) ==
    IF i > Len(s) THEN <<>>
    ELSE IF IsDigit(s[i])
         THEN LET e == DigitRunEnd(s, i)
                  j == SkipSpaces(s, e + 1)
                  k == SkipSpaces(s, j + 1)
              IN  IF j <= Len(s) /\ s[j] = "/" /\ k <= Len(s) /\ IsDigit(s[k])
                  THEN <<SubSeq(s, i, e), SubSeq(s, k, DigitRunEnd(s, k))>>
                  ELSE RatioAt(s, i + 1)
         ELSE RatioAt(s, i + 1)

\* parse_ratio(rule_str), 1.0 being Scale
parse_ratio(rule_str) ==
    IF rule_str = <<>> THEN Scale
    ELSE LET m == RatioAt(rule_str, 1) IN
         IF m # <<>> /\ DigitsVal(m[2]) # 0
         THEN (DigitsVal(m[1]) * Scale) \div DigitsVal(m[2])
         ELSE Scale

\* x * ratio, of a quantity and a ratio both held in units of 1/Scale
Times(x, ratio) == (x * ratio) \div Scale

---------------------------------------------------------------------------
(* Vocabulary of the accounting engine                                     *)

KW_FREIGHT == <<"yun", "fei">>
KW_COUNT_IN == <<"ji_r", "ru">>
KW_INCLUDED == <<"I", "N", "C", "L", "U", "D", "E", "D">>
KW_NEW_ASSEMBLY == <<"xin", "pin">> \o KW_ASSEMBLE
KW_TOP == <<"T", "O", "P">>
KW_BOTTOM == <<"B", "O", "T", "T", "O", "M">>
KW_ROLL == <<"R", "O", "L", "L">>
NAME_FREIGHT ==
    <<"gun", "lun">> \o KW_DISASSEMBLE \o <<".">> \o KW_TURN_FIX \o <<"huo_o">>
    \o KW_WELD_BU \o KW_FREIGHT
NAME_DIS == KW_ROLL \o KW_DISASSEMBLE
NAME_MAC == KW_ROLL \o KW_TURN_FIX
NAME_WELD == KW_ROLL \o KW_WELD_BU

HALF == <<"1", "/", "2">>

\* ---- the library's scores
\* fuzz.partial_ratio and fuzz.token_sort_ratio are the library's: 100 is
\* what it gives a text found whole inside the other one; for any other pair
\* the score is an input, low or high
FuzzScores == {50, 95}

\* fuzz.partial_ratio(a, b), other being the library's score for a pair of
\* which neither text holds the other
partial_ratio(a, b, other) ==
    LET short == IF Len(a) <= Len(b) THEN a ELSE b
        long == IF Len(a) <= Len(b) THEN b ELSE a
    IN  IF short = <<>> THEN 0
        ELSE IF Contains(long, short) THEN 100
        ELSE other

\* fuzz.token_sort_ratio(k, title) of two texts without spaces
token_sort_ratio(k, title, other) == IF k = title THEN 100 ELSE other

\* CURRENT_THRESHOLD of python_accounting_audit, by default
CURRENT_THRESHOLD == 90

---------------------------------------------------------------------------
(* The rule table                                                          *)

NO_RULE == [hit |-> FALSE, u_local |-> <<>>, u_fr |-> <<>>, u_agg |-> <<>>]

RuleOf(u_local, u_fr, u_agg) ==
    [hit |-> TRUE, u_local |-> u_local, u_fr |-> u_fr, u_agg |-> u_agg]

\* rules_map[clean_text(iname)] = {...}: a later row of the same name takes
\* the place of the earlier one
RulesPut(map, name, rule) ==
    IF \E j \in 1..Len(map) : map[j].name = name
    THEN [j \in 1..Len(map) |->
            IF map[j].name = name THEN [name |-> name, rule |-> rule] ELSE map[j]]
    ELSE Append(map, [name |-> name, rule |-> rule])

RECURSIVE RulesMap(_)
RulesMap(table) ==
    IF table = <<>> THEN <<>>
    ELSE LET row == table[Len(table)]
             before == RulesMap(SubSeq(table, 1, Len(table) - 1))
             iname == Strip(row.Item_Name)
         IN  IF iname = <<>> THEN before
             ELSE RulesPut(before, Strip(clean_text(iname)),
                           RuleOf(Strip(row.Unit_Rule_Local),
                                  Strip(row.Unit_Rule_Freight),
                                  Strip(row.Unit_Rule_Agg)))

InRules(map, name) == \E j \in 1..Len(map) : map[j].name = name

RuleAt(map, name) == (CHOOSE j \in 1..Len(map) : map[j].name = name)

\* re.sub(r"[(].*?[)]", "", title) with both widths of bracket, from index i on
RECURSIVE RemoveParens(_, _)
RemoveParens(s, i) ==
    IF i > Len(s) THEN <<>>
    ELSE IF s[i] \in {"(", "(fw"}
            /\ \E j \in (i + 1)..Len(s) : s[j] \in {")", ")fw"}
         THEN RemoveParens(s, 1 + CHOOSE j \in (i + 1)..Len(s) :
                                   /\ s[j] \in {")", ")fw"}
                                   /\ \A h \in (i + 1)..(j - 1) : s[h] \notin {")", ")fw"})
         ELSE <<s[i]>> \o RemoveParens(s, i + 1)

\* The fuzzy pass over rules_map, from entry j on: the entry whose score is
\* above the threshold and above every earlier one
RECURSIVE FuzzyBest(_, _, _, _, _, _, _)
FuzzyBest(map, title, scores, threshold, j, best_score_, best) ==
    IF j > Len(map) THEN best
    ELSE LET sc == token_sort_ratio(map[j].name, title, scores[j]) IN
         IF sc > threshold /\ sc > best_score_
         THEN FuzzyBest(map, title, scores, threshold, j + 1, sc, j)
         ELSE FuzzyBest(map, title, scores, threshold, j + 1, best_score_, best)

\* rule_set: the exact match, the match without brackets, the fuzzy match
rule_set(map, title_clean, scores) ==
    LET t_no == RemoveParens(title_clean, 1)
        fz == FuzzyBest(map, title_clean, scores, CURRENT_THRESHOLD, 1, 0, 0)
    IN  IF InRules(map, title_clean) THEN map[RuleAt(map, title_clean)].rule
        ELSE IF InRules(map, t_no) THEN map[RuleAt(map, t_no)].rule
        ELSE IF fz # 0 THEN map[fz].rule
        ELSE NO_RULE

---------------------------------------------------------------------------
(* One item: the local check, the duplicates, the freight, the buckets     *)

\* pair.split(":")[0], stripped
PairId(pair) ==
    LET c == CHOOSE i \in 1..Len(pair) :
                 pair[i] = ":" /\ \A j \in 1..(i - 1) : pair[j] # ":"
    IN  Strip(SubSeq(pair, 1, c - 1))

\* data_list: the pairs of ds that hold a colon
data_list(ds) == SelectSeq(ds, LAMBDA pair : ":" \in SeqToSet(pair))

\* id_counts[rid]
IdCount(ds, rid) ==
    Cardinality({i \in 1..Len(data_list(ds)) : PairId(data_list(ds)[i]) = rid})

\* The keys of id_counts, in the order of their first occurrence
RECURSIVE FirstIds(_, _)
FirstIds(pairs, seen) ==
    IF pairs = <<>> THEN <<>>
    ELSE LET rid == PairId(Head(pairs)) IN
         IF rid \in seen THEN FirstIds(Tail(pairs), seen)
         ELSE <<rid>> \o FirstIds(Tail(pairs), seen \cup {rid})

is_local_exempt(u_local) ==
    \/ Contains(u_local, KW_EXEMPT_ZH)
    \/ Contains(Upper(u_local), KW_SKIP)
    \/ Contains(Upper(u_local), KW_EXEMPT)

\* actual_item_qty with the batch total itself taken as the quantity of an
\* item that reports one
actual_item_qtyBatchTotal(item, rule) ==
    LET raw_count == Len(data_list(item.ds))
        batch_qty == safe_float(item.batch_total_qty)
    IN  IF batch_qty.num > 0 THEN batch_qty.num
        ELSE raw_count * parse_ratio(rule.u_local)

\* actual_item_qty, of an item whose batch total is a number
actual_item_qty(item, rule) ==
    LET raw_count == Len(data_list(item.ds))
        batch_qty == safe_float(item.batch_total_qty)
    IN  IF batch_qty.num > 0 THEN raw_count * Scale
        ELSE raw_count * parse_ratio(rule.u_local)

\* Whether lines 980-981 raise: a batch total or, for a rule that is not
\* exempt, a target that is the text "BAD_DATA"
ItemRaises(item, rule) ==
    \/ safe_float(item.batch_total_qty).bad
    \/ ~is_local_exempt(rule.u_local) /\ safe_float(item.item_pc_target).bad

Issue(page, item, issue_type, reason, rid, failures) ==
    [page |-> page, item |-> item, issue_type |-> issue_type,
     reason |-> reason, rid |-> rid, failures |-> failures]

\* A. the local check
LocalIssues(item, rule) ==
    LET target_pc == safe_float(item.item_pc_target)
        actual == actual_item_qty(item, rule)
    IN  IF /\ ~is_local_exempt(rule.u_local)
           /\ Abs(actual - target_pc.num) > TOLERANCE
           /\ target_pc.num > 0
        THEN <<Issue(item.page, item.item_title, "local mismatch",
                     <<target_pc.num, actual>>, <<>>, <<>>)>>
        ELSE <<>>

\* The warnings of the ids counted more than limit times
DupIssuesOver(item, limit, issue_type) ==
    LET ids == FirstIds(data_list(item.ds), {})
        over == SelectSeq(ids, LAMBDA rid : IdCount(item.ds, rid) > limit)
    IN  [i \in 1..Len(over) |->
            Issue(item.page, item.item_title, issue_type,
                  <<IdCount(item.ds, over[i])>>, over[i], <<>>)]

\* The duplicates with the journal vocabulary looked at before the body
DupIssuesJournalFirst(item) ==
    LET title_clean == Strip(clean_text(item.item_title)) IN
    IF ContainsAny(title_clean, JournalFamily)
    THEN DupIssuesOver(item, 2, "duplicate journal")
    ELSE IF Contains(title_clean, KW_BODY)
         THEN DupIssuesOver(item, 1, "duplicate body")
         ELSE <<>>

\* B. the duplicates
DupIssues(item) ==
    LET title_clean == Strip(clean_text(item.item_title)) IN
    IF Contains(title_clean, KW_BODY)
    THEN DupIssuesOver(item, 1, "duplicate body")
    ELSE IF ContainsAny(title_clean, JournalFamily)
         THEN DupIssuesOver(item, 2, "duplicate journal")
         ELSE <<>>

\* C. freight_val
freight_val(item, rule) ==
    LET title_clean == Strip(clean_text(item.item_title))
        fr_multiplier == parse_ratio(rule.u_fr)
        u_fr_upper == Upper(rule.u_fr)
        is_fr_exempt == Contains(u_fr_upper, KW_EXEMPT_ZH) \/ Contains(u_fr_upper, KW_SKIP)
        is_forced_include ==
            Contains(rule.u_fr, KW_COUNT_IN) \/ Contains(u_fr_upper, KW_INCLUDED)
        is_default_target ==
            \/ Contains(title_clean, KW_BODY) /\ Contains(title_clean, KW_UNREGEN_ZH)
            \/ Contains(title_clean, KW_NEW_ASSEMBLY)
    IN  IF ~is_fr_exempt /\ (is_default_target \/ is_forced_include \/ fr_multiplier # Scale)
        THEN Times(actual_item_qty(item, rule), fr_multiplier)
        ELSE 0

agg_mode(rule) ==
    LET p_clean == RemoveChars(Upper(rule.u_agg), {" "}) IN
    IF rule.u_agg = <<>> THEN "B"
    ELSE IF Contains(p_clean, KW_EXEMPT) \/ Contains(p_clean, KW_SKIP) THEN "EXEMPT"
    ELSE IF Contains(p_clean, <<"A", "B">>) THEN "AB"
    ELSE IF Contains(p_clean, <<"A">>) THEN "A"
    ELSE "B"

qty_agg(item, rule) ==
    LET batch_qty == safe_float(item.batch_total_qty) IN
    IF batch_qty.num > 0 THEN batch_qty.num
    ELSE Times(actual_item_qty(item, rule), parse_ratio(rule.u_agg))

\* The note of a detail: whether it is a freight, and the ratio it shows
\* (0 when the ratio is 1.0 and the note shows none)
Note(freight, ratio) == [freight |-> freight, ratio |-> IF ratio # Scale THEN ratio ELSE 0]

Detail(item, val, note) ==
    [page |-> item.page, title |-> item.item_title, val |-> val, note |-> note]

\* Whether the bucket is the freight one
IsFreightBucket(s_clean, fz) ==
    partial_ratio(NAME_FREIGHT, s_clean, fz.canon) > 70 \/ Contains(s_clean, KW_FREIGHT)

match_A(s_clean, title_clean, fz) == partial_ratio(s_clean, title_clean, fz.title) > 90

match_B(s_clean, title_clean, fz) ==
    LET s_upper_check == Upper(s_clean)
        is_dis == partial_ratio(NAME_DIS, s_upper_check, fz.canon) > 80
        is_mac == partial_ratio(NAME_MAC, s_upper_check, fz.canon) > 80
        is_weld == \/ partial_ratio(NAME_WELD, s_upper_check, fz.canon) > 80
                   \/ Contains(s_upper_check, KW_WELD_HUO)
                   \/ Contains(s_upper_check, KW_JIA)
        has_part_body == Contains(title_clean, KW_BODY)
        has_part_journal == ContainsAny(title_clean, JournalFamily)
        has_act_mac ==
            ContainsAny(title_clean, {KW_REGEN_ZH, KW_FINE_TURN, KW_UNREGEN_ZH, KW_ROUGH})
        has_act_weld == ContainsAny(title_clean, {KW_WELD_BU, KW_WELD_HUO, KW_JIA})
        is_assy == ContainsAny(title_clean, {KW_ASSEMBLE, KW_DISASSEMBLE})
    IN  \/ is_dis /\ is_assy
        \/ is_mac /\ (has_part_body \/ has_part_journal) /\ has_act_mac
        \/ is_weld /\ (has_part_body \/ has_part_journal) /\ has_act_weld

\* Step 2 of the bucket loop: whether the pair is turned away
Intercepted(s_clean, title_clean) ==
    LET s_upper == Upper(s_clean)
        t_upper == Upper(title_clean)
        s_is_unregen == ContainsAny(s_clean, {KW_UNREGEN_ZH, KW_ROUGH})
        t_is_unregen == ContainsAny(title_clean, {KW_UNREGEN_ZH, KW_ROUGH})
        s_is_regen == ContainsAny(s_clean, {KW_REGEN_ZH, KW_FINE_TURN}) /\ ~s_is_unregen
        t_is_regen ==
            ContainsAny(title_clean, {KW_REGEN_ZH, KW_FINE_TURN, KW_TURN_FIX}) /\ ~t_is_unregen
        s_is_body == Contains(s_clean, KW_BODY)
        t_is_body == Contains(title_clean, KW_BODY)
        s_is_journal == ContainsAny(s_clean, JournalFamily)
        t_is_journal == ContainsAny(title_clean, JournalFamily)
    IN  \/ s_is_regen /\ t_is_unregen
        \/ s_is_unregen /\ t_is_regen
        \/ s_is_body /\ ~s_is_journal /\ t_is_journal
        \/ s_is_journal /\ ~s_is_body /\ t_is_body
        \/ Contains(s_upper, KW_TOP) /\ Contains(t_upper, KW_BOTTOM)
        \/ Contains(s_upper, KW_BOTTOM) /\ Contains(t_upper, KW_TOP)

Matched(s_clean, title_clean, mode, fz) ==
    LET a == match_A(s_clean, title_clean, fz)
        b == match_B(s_clean, title_clean, fz)
        match == IF mode = "A" THEN a
                 ELSE IF mode = "AB" THEN a \/ b
                 ELSE IF b THEN b ELSE a
    IN  match /\ ~Intercepted(s_clean, title_clean)

\* The quantity added to the total with no detail written for it
CreditUnrecorded(data, detail) == [data EXCEPT !.actual = @ + detail.val]

\* data["actual"] += val; data["details"].append({...})
Credit(data, detail) ==
    [data EXCEPT !.actual = @ + detail.val, !.details = Append(@, detail)]

\* One bucket of the tracker, as the item leaves it
Bucket(data, item, rule, fz) ==
    LET s_clean == Strip(clean_text(data.title))
        title_clean == Strip(clean_text(item.item_title))
    IN  IF IsFreightBucket(s_clean, fz)
        THEN IF freight_val(item, rule) > 0
             THEN Credit(data, Detail(item, freight_val(item, rule),
                                      Note(TRUE, parse_ratio(rule.u_fr))))
             ELSE data
        ELSE IF Matched(s_clean, title_clean, agg_mode(rule), fz)
             THEN Credit(data, Detail(item, qty_agg(item, rule),
                                      Note(FALSE, parse_ratio(rule.u_agg))))
             ELSE data

\* The tracker, as the item leaves it
Buckets(tracker, item, rule, fz) ==
    IF agg_mode(rule) = "EXEMPT" THEN tracker
    ELSE [j \in 1..Len(tracker) |-> Bucket(tracker[j], item, rule, fz[j])]

---------------------------------------------------------------------------
(* The documents the engine is run on                                      *)

T_OTHER == <<"X", "1">>
T_BODY_REGEN == KW_BODY \o KW_REGEN_ZH
T_JOURNAL_REGEN == KW_JOURNAL_JING \o KW_REGEN_ZH
T_BODY_JOURNAL == KW_BODY \o KW_JOURNAL_JING
T_UNREGEN_DIS == KW_BODY \o KW_UNREGEN_ZH \o KW_DISASSEMBLE

BT_REGEN == KW_BODY \o KW_REGEN_ZH
BT_FREIGHT == KW_FREIGHT
BT_DIS_WELD == KW_ROLL \o KW_DISASSEMBLE \o KW_WELD_BU

P_1 == <<"1", ":", "5">>
P_1_AGAIN == <<" ", "1", ":", "6">>
P_2 == <<"2", ":", "5">>
P_JUNK == <<"x">>

\* ds.split("|")
DS_0 == <<>>
DS_1 == <<P_1>>
DS_2 == <<P_1, P_2>>
DS_JUNK == <<P_1, P_JUNK>>
DS_TWICE == <<P_1, P_1_AGAIN>>
DS_THRICE == <<P_1, P_1_AGAIN, P_1, P_2>>

RowOf(title, apply_qty, delivery_qty, has_target) ==
    [title |-> title, apply_qty |-> apply_qty, delivery_qty |-> delivery_qty,
     has_target |-> has_target, target |-> Q_4]

\* The summary rows of a family of documents
SummaryRows(dom) ==
    CASE dom = "rows" ->
           {RowOf(t, a, d, h) : t \in {BT_REGEN, BT_FREIGHT},
                                a \in {Q_5, Q_4, SENTINEL},
                                d \in {Q_5, Q_0, SENTINEL}, h \in BOOLEAN}
      [] dom = "local" -> {RowOf(BT_REGEN, Q_5, Q_5, FALSE)}
      [] dom = "duplicates" -> {RowOf(BT_REGEN, Q_10, Q_10, FALSE)}
      [] dom = "buckets" ->
           {RowOf(t, Q_10, Q_10, FALSE) : t \in {BT_REGEN, BT_FREIGHT, BT_DIS_WELD}}
      [] dom = "totals" ->
           {RowOf(t, Q_4, Q_4, FALSE) : t \in {BT_REGEN, BT_FREIGHT}}

TableRow(name, u_local, u_fr, u_agg) ==
    [Item_Name |-> name, Unit_Rule_Local |-> u_local, Unit_Rule_Freight |-> u_fr,
     Unit_Rule_Agg |-> u_agg]

\* The rows rules.xlsx may hold
TableRows(dom) ==
    CASE dom \in {"rows", "duplicates"} -> {}
      [] dom = "local" ->
           {TableRow(T_OTHER, u, <<>>, <<>>) : u \in {HALF, KW_EXEMPT_ZH, <<"s", "k", "i", "p">>}}
      [] dom = "buckets" ->
           {TableRow(T_UNREGEN_DIS, <<>>, r[1], r[2]) :
              r \in {<<HALF, <<>>>>, <<KW_SKIP, <<>>>>, <<HALF, KW_SKIP>>,
                     <<KW_COUNT_IN, <<"A", "B", " ">> \o HALF>>, <<<<>>, <<"A">>>>}}
      [] dom = "totals" -> {TableRow(T_UNREGEN_DIS, <<>>, HALF, <<>>)}

\* rules.xlsx: no file, or a table of one row
Tables(dom) == {<<>>} \cup {<<row>> : row \in TableRows(dom)}

ItemOf(title, target, batch, ds) ==
    [item_title |-> title, item_pc_target |-> target, batch_total_qty |-> batch,
     ds |-> ds]

\* The items of a family of documents
AccItems(dom) ==
    CASE dom = "rows" ->
           {ItemOf(T_OTHER, t, Q_0, DS_1) : t \in {Q_1, SENTINEL}}
      [] dom = "local" ->
           {ItemOf(T_OTHER, t, b, ds) :
              t \in {NONE, Q_1, SENTINEL}, b \in {Q_NULL, Q_2}, ds \in {DS_1, DS_2}}
           \cup {ItemOf(T_OTHER, Q_1, SENTINEL, DS_1), ItemOf(T_OTHER, Q_1, Q_0, DS_JUNK)}
      [] dom = "duplicates" ->
           {ItemOf(t, Q_0, Q_0, ds) :
              t \in {T_BODY_REGEN, T_JOURNAL_REGEN, T_BODY_JOURNAL},
              ds \in {DS_0, DS_2, DS_JUNK, DS_TWICE, DS_THRICE}}
      [] dom = "buckets" ->
           {ItemOf(T_BODY_REGEN, Q_0, Q_4, DS_2), ItemOf(T_JOURNAL_REGEN, Q_0, Q_0, DS_2),
            ItemOf(T_UNREGEN_DIS, Q_0, Q_0, DS_2), ItemOf(T_UNREGEN_DIS, Q_0, Q_4, DS_2)}
      [] dom = "totals" ->
           {ItemOf(T_BODY_REGEN, Q_0, Q_0, DS_1), ItemOf(T_BODY_REGEN, Q_0, Q_4, DS_2),
            ItemOf(T_UNREGEN_DIS, Q_0, Q_0, DS_1), ItemOf(T_UNREGEN_DIS, Q_0, Q_0, DS_2)}

Paged(item, page) ==
    [page |-> page, item_title |-> item.item_title,
     item_pc_target |-> item.item_pc_target,
     batch_total_qty |-> item.batch_total_qty, ds |-> item.ds]

\* History: the item with the rule_set that was found for it
Seen(item, rule) == [item |-> item, rule |-> rule]

FuzzInputs == [title : FuzzScores, canon : FuzzScores]

---------------------------------------------------------------------------
(* The function, step by step                                              *)

AccStart(dom) ==
    /\ a_pc = "load"
    /\ a_n = 0
    /\ a_issues = <<>>
    /\ a_tracker = <<>>
    /\ a_dom = dom
    /\ a_rules = <<>>
    /\ a_rows = <<>>
    /\ a_items = <<>>
    /\ ClsIdle /\ NumIdle /\ ConIdle /\ ProcIdle /\ ExtIdle

AccInit == AccStart("rows")
LocalInit == AccStart("local")
DuplicatesInit == AccStart("duplicates")
BucketsInit == AccStart("buckets")
TotalsInit == AccStart("totals")

\* 1. rules.xlsx is read; a file that cannot be read leaves rules_map empty
AccLoadRules ==
    /\ a_pc = "load"
    /\ \E table \in Tables(a_dom) : a_rules' = RulesMap(table)
    /\ a_pc' = "summary"
    /\ UNCHANGED <<a_n, a_issues, a_tracker, a_dom, a_rows, a_items>>
    /\ UNCHANGED <<clsVars, numVars, conVars, procVars, extVars>>

\* One summary row.  The subtraction of a quantity that is the text
\* "BAD_DATA" raises TypeError: nothing catches it, the call ends there
AccSummaryRow ==
    /\ a_pc = "summary"
    /\ a_n < MaxSummary
    /\ \E s \in SummaryRows(a_dom) :
         LET q_apply == safe_float(s.apply_qty)
             q_first == safe_float(s.delivery_qty)
             q_deliver == IF ~q_first.bad /\ q_first.num = 0 /\ s.has_target
                          THEN safe_float(s.target) ELSE q_first
         IN  /\ a_rows' = Append(a_rows, s)
             /\ IF q_apply.bad \/ q_deliver.bad
                THEN /\ a_pc' = "raised"
                     /\ UNCHANGED <<a_issues, a_tracker>>
                ELSE /\ a_issues' =
                          IF Abs(q_apply.num - q_deliver.num) > TOLERANCE
                          THEN Append(a_issues,
                                      Issue(a_n + 1, s.title, "summary quantity",
                                            <<q_apply.num, q_deliver.num>>, <<>>,
                                            <<q_apply.num, q_deliver.num>>))
                          ELSE a_issues
                     /\ a_tracker' =
                          TrackerPut(a_tracker, s.title,
                                     [title |-> s.title, target |-> q_deliver.num,
                                      actual |-> 0, details |-> <<>>])
                     /\ UNCHANGED a_pc
    /\ a_n' = a_n + 1
    /\ UNCHANGED <<a_dom, a_rules, a_items>>
    /\ UNCHANGED <<clsVars, numVars, conVars, procVars, extVars>>

\* The rows are read: the scan of the items comes next
AccSummaryEnd ==
    /\ a_pc = "summary"
    /\ a_pc' = "items"
    /\ a_n' = 0
    /\ UNCHANGED <<a_issues, a_tracker, a_dom, a_rules, a_rows, a_items>>
    /\ UNCHANGED <<clsVars, numVars, conVars, procVars, extVars>>

\* One item of dimension_data, from its rule to its buckets.  A batch total
\* or a target that is the text "BAD_DATA" raises TypeError in the local
\* check: the call ends there
AccItem ==
    /\ a_pc = "items"
    /\ a_n < MaxAccItems
    /\ \E it \in AccItems(a_dom), scores \in [1..Len(a_rules) -> FuzzScores],
          fz \in [1..Len(a_tracker) -> FuzzInputs] :
         LET item == Paged(it, a_n + 1)
             rule == rule_set(a_rules, Strip(clean_text(item.item_title)), scores)
         IN  /\ a_items' = Append(a_items, Seen(item, rule))
             /\ IF ItemRaises(item, rule)
                THEN /\ a_pc' = "raised"
                     /\ UNCHANGED <<a_issues, a_tracker>>
                ELSE /\ a_issues' = a_issues \o LocalIssues(item, rule) \o DupIssues(item)
                     /\ a_tracker' = Buckets(a_tracker, item, rule, fz)
                     /\ UNCHANGED a_pc
    /\ a_n' = a_n + 1
    /\ UNCHANGED <<a_dom, a_rules, a_rows>>
    /\ UNCHANGED <<clsVars, numVars, conVars, procVars, extVars>>

\* The items are read: the settlement comes next
AccItemsEnd ==
    /\ a_pc = "items"
    /\ a_pc' = "settle"
    /\ a_n' = 0
    /\ UNCHANGED <<a_issues, a_tracker, a_dom, a_rules, a_rows, a_items>>
    /\ UNCHANGED <<clsVars, numVars, conVars, procVars, extVars>>

\* fail_table: the target, the details, the total
FailTable(data) ==
    <<[row |-> "target", page |-> 0, title |-> <<>>, val |-> data.target,
       note |-> Note(FALSE, Scale)]>>
    \o [i \in 1..Len(data.details) |->
          [row |-> "detail", page |-> data.details[i].page,
           title |-> data.details[i].title, val |-> data.details[i].val,
           note |-> data.details[i].note]]
    \o <<[row |-> "total", page |-> 0, title |-> <<>>, val |-> data.actual,
          note |-> Note(FALSE, Scale)]>>

\* One entry of the tracker is settled
AccSettle ==
    /\ a_pc = "settle"
    /\ a_n < Len(a_tracker)
    /\ LET data == a_tracker[a_n + 1] IN
       a_issues' =
          IF Abs(data.actual - data.target) > TOLERANCE
          THEN Append(a_issues,
                      Issue(0, data.title, "detail total",
                            <<data.target, data.actual>>, <<>>, FailTable(data)))
          ELSE a_issues
    /\ a_n' = a_n + 1
    /\ UNCHANGED <<a_pc, a_tracker, a_dom, a_rules, a_rows, a_items>>
    /\ UNCHANGED <<clsVars, numVars, conVars, procVars, extVars>>

\* rule_hits_log is not empty: some item has met a rule
RuleHit == \E i \in 1..Len(a_items) : a_items[i].rule.hit

\* The hidden issue that carries rule_hits_log, then return accounting_issues
AccReturn ==
    /\ a_pc = "settle"
    /\ a_n = Len(a_tracker)
    /\ a_pc' = "done"
    /\ a_issues' = IF RuleHit
                   THEN Append(a_issues, Issue(0, <<>>, "HIDDEN_DATA", <<>>, <<>>, <<>>))
                   ELSE a_issues
    /\ UNCHANGED <<a_n, a_tracker, a_dom, a_rules, a_rows, a_items>>
    /\ UNCHANGED <<clsVars, numVars, conVars, procVars, extVars>>

AccNext ==
    \/ AccLoadRules
    \/ AccSummaryRow
    \/ AccSummaryEnd
    \/ AccItem
    \/ AccItemsEnd
    \/ AccSettle
    \/ AccReturn

SpecAccounting == AccInit /\ [][AccNext]_vars
SpecLocal == LocalInit /\ [][AccNext]_vars
SpecDuplicates == DuplicatesInit /\ [][AccNext]_vars
SpecBuckets == BucketsInit /\ [][AccNext]_vars
SpecTotals == TotalsInit /\ [][AccNext]_vars

\* C2: the engine never raises to its caller: whatever the summary rows hold,
\* the damage mark in a quantity included, the call does not end in an
\* exception.
C2_NeverRaises == a_pc # "raised"

---------------------------------------------------------------------------
(* Properties of the scan of the items                                     *)

\* The items whose iteration ran to its end: all the items read, but the
\* last one when it is the one that raised
Processed ==
    IF a_pc = "raised" /\ a_items # <<>> THEN Len(a_items) - 1 ELSE Len(a_items)

IssuesOf(issue_type, page) ==
    {k \in 1..Len(a_issues) :
        a_issues[k].issue_type = issue_type /\ a_issues[k].page = page}

\* The measurements of an item: the pairs of its ds that hold a colon
MeasurementCount(item) ==
    Cardinality({i \in 1..Len(item.ds) : \E j \in 1..Len(item.ds[i]) : item.ds[i][j] = ":"})

LocalExempt(rule) ==
    \E k \in {KW_EXEMPT_ZH, KW_SKIP, KW_EXEMPT} : Contains(Upper(rule.u_local), k)

TargetOf(item) == safe_float(item.item_pc_target).num

BatchTotalOf(item) == safe_float(item.batch_total_qty).num

\* The actual quantity as the claim words it: the batch total of an item
\* that reports one, the count times the local ratio of any other
ActualAsClaimed(seen) ==
    IF BatchTotalOf(seen.item) > 0 THEN BatchTotalOf(seen.item)
    ELSE MeasurementCount(seen.item) * parse_ratio(seen.rule.u_local)

\* The actual quantity of the local check: the bare count of an item that
\* reports a batch total, the count times the local ratio of any other
ActualLocal(seen) ==
    IF BatchTotalOf(seen.item) > 0 THEN MeasurementCount(seen.item) * Scale
    ELSE MeasurementCount(seen.item) * parse_ratio(seen.rule.u_local)

---------------------------------------------------------------------------
(* Properties of the settlement                                            *)

RECURSIVE SumVals(_)
SumVals(details) ==
    IF details = <<>> THEN 0 ELSE Head(details).val + SumVals(Tail(details))

SettlementIssues(title) ==
    {k \in 1..Len(a_issues) :
        a_issues[k].issue_type = "detail total" /\ a_issues[k].item = title}

\* The evidence of a settlement: the target first, the total last, and in
\* between one row for every detail of the bucket, in their order
FullEvidence(failures, data) ==
    /\ Len(failures) = Len(data.details) + 2
    /\ failures[1].row = "target" /\ failures[1].val = data.target
    /\ failures[Len(failures)].row = "total"
    /\ failures[Len(failures)].val = SumVals(data.details)
    /\ \A i \in 1..Len(data.details) :
          /\ failures[i + 1].row = "detail"
          /\ failures[i + 1].page = data.details[i].page
          /\ failures[i + 1].title = data.details[i].title
          /\ failures[i + 1].val = data.details[i].val
          /\ failures[i + 1].note = data.details[i].note

---------------------------------------------------------------------------
(* Properties of the summary rows                                          *)

\* The delivered quantity of a row: delivery_qty, or the target of a row of
\* the older layout, which has no delivery_qty
RowDelivered(row) ==
    IF safe_float(row.delivery_qty).num = 0 /\ row.has_target
    THEN safe_float(row.target).num
    ELSE safe_float(row.delivery_qty).num

RowMismatch(row) ==
    Abs(safe_float(row.apply_qty).num - RowDelivered(row)) > TOLERANCE

\* C17: whatever the items hold, once the rows are read the call goes on
\* to return its issues, and they hold exactly one summary-quantity issue
\* for every row whose applied and delivered quantities differ by more than
\* 0.01 and none for a row where they match.
C17_SummaryIssues ==
    a_pc \notin {"load", "summary"} =>
       /\ a_pc # "raised"
       /\ \A n \in 1..Len(a_rows) :
             Cardinality(IssuesOf("summary quantity", n)) =
                IF RowMismatch(a_rows[n]) THEN 1 ELSE 0

---------------------------------------------------------------------------
(* Properties of the duplicate ids                                         *)

\* The part ids of the measurements of an item
PartIds(item) ==
    {PairId(item.ds[i]) : i \in {h \in 1..Len(item.ds) : ":" \in SeqToSet(item.ds[h])}}

Occurrences(item, rid) ==
    Cardinality({i \in 1..Len(item.ds) :
                    ":" \in SeqToSet(item.ds[i]) /\ PairId(item.ds[i]) = rid})

DupWarnings(page, rid) ==
    {k \in 1..Len(a_issues) :
        /\ a_issues[k].issue_type \in {"duplicate body", "duplicate journal"}
        /\ a_issues[k].page = page
        /\ a_issues[k].rid = rid}

CarriesBody(title) == Contains(Strip(clean_text(title)), KW_BODY)

CarriesJournal(title) == ContainsAny(Strip(clean_text(title)), JournalFamily)

\* One warning for every id above the limit, none for any other id
WarnsAbove(item, limit) ==
    /\ \A rid \in PartIds(item) :
          Cardinality(DupWarnings(item.page, rid)) =
             IF Occurrences(item, rid) > limit THEN 1 ELSE 0
    /\ \A k \in 1..Len(a_issues) :
          (/\ a_issues[k].issue_type \in {"duplicate body", "duplicate journal"}
           /\ a_issues[k].page = item.page) => a_issues[k].rid \in PartIds(item)

NoWarning(item) ==
    \A k \in 1..Len(a_issues) :
       a_issues[k].issue_type \in {"duplicate body", "duplicate journal"}
          => a_issues[k].page # item.page

---------------------------------------------------------------------------
(* Properties of the buckets                                               *)

\* The actions a title carries, among non-reconditioned, reconditioned and
\* welded
ActionsOf(title) ==
    LET t == Strip(clean_text(title))
        unregen == ContainsAny(t, {KW_UNREGEN_ZH, KW_ROUGH})
    IN  {a \in {"non-reconditioned", "reconditioned", "welded"} :
           \/ a = "non-reconditioned" /\ unregen
           \/ a = "reconditioned" /\ ContainsAny(t, {KW_REGEN_ZH, KW_FINE_TURN}) /\ ~unregen
           \/ a = "welded" /\ ContainsAny(t, {KW_WELD_BU, KW_WELD_HUO, KW_JIA})}

\* Both titles carry an action and they share none
ActionClash(s_title, title) ==
    /\ ActionsOf(s_title) # {}
    /\ ActionsOf(title) # {}
    /\ ActionsOf(s_title) \cap ActionsOf(title) = {}

OnlyBody(title) == CarriesBody(title) /\ ~CarriesJournal(title)

OnlyJournal(title) == CarriesJournal(title) /\ ~CarriesBody(title)

PartClash(s_title, title) ==
    \/ OnlyBody(s_title) /\ OnlyJournal(title)
    \/ OnlyJournal(s_title) /\ OnlyBody(title)

NamesFreight(s_title) == Contains(Strip(clean_text(s_title)), KW_FREIGHT)

\* C15: no bucket holds the aggregate quantity of an item whose title
\* carries a different action (non-reconditioned, reconditioned, welded)
\* from the bucket's, none being shared, or the other part (body against
\* journal), however the pair was matched.
C15_MutualExclusion ==
    \A j \in 1..Len(a_tracker) :
       \A d \in 1..Len(a_tracker[j].details) :
          LET detail == a_tracker[j].details[d] IN
          ~detail.note.freight =>
             /\ ~ActionClash(a_tracker[j].title, detail.title)
             /\ ~PartClash(a_tracker[j].title, detail.title)

FreightExempt(rule) ==
    \E k \in {KW_EXEMPT_ZH, KW_SKIP} : Contains(Upper(rule.u_fr), k)

\* The item counts toward freight: its freight rule holds a ratio or the
\* include token, or it has no freight rule and is a non-reconditioned body
CountsTowardFreight(seen) ==
    \/ parse_ratio(seen.rule.u_fr) # Scale
    \/ Contains(seen.rule.u_fr, KW_COUNT_IN)
    \/ Contains(Upper(seen.rule.u_fr), KW_INCLUDED)
    \/ /\ seen.rule.u_fr = <<>>
       /\ CarriesBody(seen.item.item_title)
       /\ "non-reconditioned" \in ActionsOf(seen.item.item_title)

FreightDue(seen) ==
    IF ~FreightExempt(seen.rule) /\ CountsTowardFreight(seen)
    THEN Times(ActualLocal(seen), parse_ratio(seen.rule.u_fr))
    ELSE 0

RECURSIVE FreightSum(_)
FreightSum(items) ==
    IF items = <<>> THEN 0 ELSE FreightDue(Head(items)) + FreightSum(Tail(items))

\* C16: once the items are scanned, the actual of a freight bucket is the
\* sum, over the items that count toward freight and whose freight rule is
\* not exempt, of the actual quantity times the freight ratio, whatever the
\* titles and the aggregate rules of the items; it holds no aggregate
\* quantity.
C16_FreightBucket ==
    a_pc \in {"settle", "done"} =>
       \A j \in 1..Len(a_tracker) :
          NamesFreight(a_tracker[j].title) =>
             /\ a_tracker[j].actual = FreightSum(a_items)
             /\ \A d \in 1..Len(a_tracker[j].details) :
                   a_tracker[j].details[d].note.freight


RECURSIVE ValSum(_)
ValSum(rows) == IF rows = <<>> THEN 0 ELSE Head(rows).val + ValSum(Tail(rows))

\* The rows of a fail_table of one kind
RowsOf(fail_table, kind) == SelectSeq(fail_table, LAMBDA r : r.row = kind)

\* The details a bucket holds for the item read at position n (the model
\* numbers the pages of the items by their position in dimension_data)
DetailsFor(data, n) == {d \in 1..Len(data.details) : data.details[d].page = n}

\* C29: at every point of the function, the actual of every bucket is the
\* sum of the val of its details and no item has more than one detail in a
\* bucket; so in every settlement issue the detail rows add up to the total
\* row.
C29_ActualIsDetailSum ==
    /\ \A j \in 1..Len(a_tracker) :
          /\ a_tracker[j].actual = ValSum(a_tracker[j].details)
          /\ \A n \in 1..Len(a_items) :
                Cardinality(DetailsFor(a_tracker[j], n)) <= 1
    /\ \A i \in 1..Len(a_issues) :
          a_issues[i].issue_type = "detail total" =>
             ValSum(RowsOf(a_issues[i].failures, "detail"))
                = ValSum(RowsOf(a_issues[i].failures, "total"))

\* A settlement issue whose table shows two details, one freight bucket with
\* a detail of its own
C29_Witness ==
    /\ a_dom = "totals"
    /\ a_pc = "done"
    /\ \E i \in 1..Len(a_issues) :
          /\ a_issues[i].issue_type = "detail total"
          /\ Len(RowsOf(a_issues[i].failures, "detail")) = 2
    /\ \E j \in 1..Len(a_tracker) :
          /\ NamesFreight(a_tracker[j].title)
          /\ a_tracker[j].details # <<>>
---------------------------------------------------------------------------
(* python_process_audit: the rule table, the history of the stages of      *)
(* every part on every track, the gaps and the order of the sizes          *)

\* Longest dimension_data, in items
MaxProcItems == 3

\* CURRENT_THRESHOLD of python_process_audit, by default
PROCESS_THRESHOLD == 95

\* The library's score for a rule name that is not the title: low, or above
\* the threshold
ProcScores == {50, 97}

Stages == 1..4

\* size_rank with the stages ranked in the order of their numbers
size_rankByStage(stage) == 10 * stage

\* size_rank[stage]
size_rank(stage) ==
    CASE stage = 1 -> 10 [] stage = 4 -> 20 [] stage = 3 -> 30 [] stage = 2 -> 40

ProcTableRow(name, p_rule) == [Item_Name |-> name, Process_Rule |-> p_rule]

\* rules_map of the process engine: the rows that have a name and a rule
RECURSIVE ProcRulesMap(_)
ProcRulesMap(table) ==
    IF table = <<>> THEN <<>>
    ELSE LET row == table[Len(table)]
             before == ProcRulesMap(SubSeq(table, 1, Len(table) - 1))
             iname == Strip(row.Item_Name)
             p_rule == Strip(row.Process_Rule)
         IN  IF iname # <<>> /\ p_rule # <<>> /\ Upper(p_rule) # <<"N", "A", "N">>
             THEN RulesPut(before, Strip(clean_text(iname)), p_rule)
             ELSE before

\* forced_rule: the exact match, the match without brackets, the fuzzy
\* match; <<>> is None
ProcForcedRule(map, title_clean, scores) ==
    LET t_no == RemoveParens(title_clean, 1)
        fz == FuzzyBest(map, title_clean, scores, PROCESS_THRESHOLD, 1, 0, 0)
    IN  IF InRules(map, title_clean) THEN map[RuleAt(map, title_clean)].rule
        ELSE IF InRules(map, t_no) THEN map[RuleAt(map, t_no)].rule
        ELSE IF fz # 0 THEN map[fz].rule
        ELSE <<>>

\* The items that are passed over before any rule is looked up
ProcExemptTitle(title_clean) ==
    ContainsAny(Upper(title_clean), {KW_BALANCE_ZH, KW_BALANCING, KW_HEAT_ZH, KW_HEAT})

ProcRuleSkips(forced) ==
    forced # <<>> /\ ContainsAny(Upper(forced), {KW_EXEMPT_ZH, KW_EXEMPT, KW_SKIP})

TRACK_BODY == KW_BODY
TRACK_JOURNAL == KW_JOURNAL_JING
TRACK_UNKNOWN == <<"U", "n", "k", "n", "o", "w", "n">>

\* track: from the rule, then from the title
TrackOf(title, forced) ==
    LET fr == Upper(forced)
        by_rule == IF forced = <<>> THEN TRACK_UNKNOWN
                   ELSE IF Contains(fr, KW_BODY) THEN TRACK_BODY
                   ELSE IF ContainsAny(fr, {KW_JOURNAL_JING, KW_JOURNAL_TOU, KW_JOURNAL_WEI})
                        THEN TRACK_JOURNAL
                   ELSE TRACK_UNKNOWN
    IN  IF by_rule # TRACK_UNKNOWN THEN by_rule
        ELSE IF Contains(title, KW_BODY) THEN TRACK_BODY
        ELSE IF ContainsAny(title, JournalFamily) THEN TRACK_JOURNAL
        ELSE TRACK_UNKNOWN

\* stage: from the rule, then from the title; 0 when neither names one
StageOf(title, forced) ==
    LET fr == Upper(forced)
        by_rule == IF forced = <<>> THEN 0
                   ELSE IF ContainsAny(fr, {KW_UNREGEN_ZH, KW_ROUGH}) THEN 1
                   ELSE IF ContainsAny(fr, {KW_WELD_JIN, KW_WELD_HUO, KW_JIA}) THEN 2
                   ELSE IF ContainsAny(fr, {KW_REGEN_ZH, KW_FINE_TURN}) THEN 3
                   ELSE IF Contains(fr, KW_GRIND_ZH) THEN 4
                   ELSE 0
    IN  IF by_rule # 0 THEN by_rule
        ELSE IF Contains(title, KW_GRIND_ZH) THEN 4
        ELSE IF ContainsAny(title, {KW_WELD_BU, KW_WELD_JIE, KW_WELD_HUO, KW_JIA}) THEN 2
        ELSE IF ContainsAny(title, {KW_UNREGEN_ZH, KW_ROUGH}) THEN 1
        ELSE IF ContainsAny(title, {KW_REGEN_ZH, KW_FINE_TURN}) THEN 3
        ELSE 0

\* seg.split(":"), from index i on
RECURSIVE SplitColon(_, _, _)
SplitColon(seg, i, part) ==
    IF i > Len(seg) THEN <<part>>
    ELSE IF seg[i] = ":" THEN <<part>> \o SplitColon(seg, i + 1, <<>>)
    ELSE SplitColon(seg, i + 1, Append(part, seg[i]))

NoInfo == [has |-> FALSE, val |-> 0, page |-> 0, title |-> <<>>]

Info(val, page, title) == [has |-> TRUE, val |-> val, page |-> page, title |-> title]

HasKey(history, rid, track) ==
    \E h \in 1..Len(history) : history[h].rid = rid /\ history[h].track = track

\* history[key][stage] = {...}
HistoryPut(history, rid, track, stage, info) ==
    IF HasKey(history, rid, track)
    THEN [h \in 1..Len(history) |->
            IF history[h].rid = rid /\ history[h].track = track
            THEN [history[h] EXCEPT !.stages[stage] = info]
            ELSE history[h]]
    ELSE Append(history,
                [rid |-> rid, track |-> track,
                 stages |-> [s \in Stages |-> IF s = stage THEN info ELSE NoInfo]])

\* The segments of ds, from the first on, written into the history
RECURSIVE Collect(_, _, _, _, _)
Collect(history, segments, item, track, stage) ==
    IF segments = <<>> THEN history
    ELSE LET parts == SplitColon(Head(segments), 1, <<>>)
             rid == Upper(Strip(parts[1]))
             nums == FindNums(Strip(parts[2]), 1)
         IN  IF Len(parts) < 2 \/ nums = <<>>
             THEN Collect(history, Tail(segments), item, track, stage)
             ELSE Collect(HistoryPut(history, rid, track, stage,
                                     Info(UFloat(nums[1]), item.page, Strip(item.item_title))),
                          Tail(segments), item, track, stage)

\* The history as one item leaves it
ProcRecord(history, item, forced) ==
    LET title == Strip(item.item_title)
        track == TrackOf(title, forced)
        stage == StageOf(title, forced)
    IN  IF \/ ProcExemptTitle(Strip(clean_text(title)))
           \/ ProcRuleSkips(forced)
           \/ track = TRACK_UNKNOWN
           \/ stage = 0
        THEN history
        ELSE Collect(history, item.ds, item, track, stage)

\* present_stages, in ascending order
RECURSIVE PresentFrom(_, _)
PresentFrom(stages_data, s) ==
    IF s > 4 THEN <<>>
    ELSE (IF stages_data[s].has THEN <<s>> ELSE <<>>) \o PresentFrom(stages_data, s + 1)

present_stages(stages_data) == PresentFrom(stages_data, 1)

max_stage(stages_data) ==
    present_stages(stages_data)[Len(present_stages(stages_data))]

\* missing_stages: the stages below max_stage that are not in stages_data
missing_stages(stages_data) ==
    SelectSeq(<<1, 2, 3, 4>>,
              LAMBDA req_s : req_s < max_stage(stages_data) /\ ~stages_data[req_s].has)

ProcIssue(issue_type, rid, track, page, item, stages, vals) ==
    [issue_type |-> issue_type, rid |-> rid, track |-> track, page |-> page,
     item |-> item, stages |-> stages, vals |-> vals]

GapIssues(entry) ==
    LET last_info == entry.stages[max_stage(entry.stages)] IN
    IF missing_stages(entry.stages) # <<>>
    THEN <<ProcIssue("gap", entry.rid, entry.track, last_info.page, last_info.title,
                     missing_stages(entry.stages), <<>>)>>
    ELSE <<>>

is_violation(stages_data, s_a, s_b) ==
    LET expect_a_smaller == size_rank(s_a) < size_rank(s_b) IN
    IF expect_a_smaller THEN stages_data[s_a].val >= stages_data[s_b].val
    ELSE stages_data[s_a].val <= stages_data[s_b].val

\* The pairs (i, j), i < j, of positions of present_stages, in the order of
\* the two loops
PairsInOrder(n) ==
    LET all == {<<i, j>> : i \in 1..n, j \in 1..n}
        pairs == {p \in all : p[1] < p[2]}
        Before(p, q) == p[1] < q[1] \/ (p[1] = q[1] /\ p[2] < q[2])
        RECURSIVE Sorted(_)
        Sorted(S) ==
            IF S = {} THEN <<>>
            ELSE LET first == CHOOSE p \in S : \A q \in S \ {p} : Before(p, q)
                 IN  <<first>> \o Sorted(S \ {first})
    IN  Sorted(pairs)

\* The issue of the order carries the track and not the part id: rid is kept
\* here as history, to tell which entry of the history the issue came from
OrderIssues(entry) ==
    LET present == present_stages(entry.stages)
        pairs == PairsInOrder(Len(present))
        bad == SelectSeq(pairs,
                         LAMBDA p : is_violation(entry.stages, present[p[1]], present[p[2]]))
    IN  [k \in 1..Len(bad) |->
           LET s_a == present[bad[k][1]]
               s_b == present[bad[k][2]]
           IN  ProcIssue("order", entry.rid, entry.track, entry.stages[s_b].page,
                         entry.track, <<s_a, s_b>>,
                         <<entry.stages[s_a].val, entry.stages[s_b].val>>)]

---------------------------------------------------------------------------
(* The documents the process engine is run on                              *)

T_BODY_UNREGEN == KW_BODY \o KW_UNREGEN_ZH
T_BODY_WELD == KW_BODY \o KW_WELD_BU
T_BODY_GRIND == KW_BODY \o KW_GRIND_ZH
T_BODY_BALANCE == KW_BODY \o KW_BALANCE_ZH

SEG_A_100 == <<"A", ":", "1", "0", "0">>
SEG_A_101 == <<"a", " ", ":", " ", "1", "0", "1", "m", "m">>
SEG_B_100 == <<"B", ":", "1", "0", "0", ":", "9">>
SEG_JUNK == <<"C", ":", "N", "/", "A">>

DS_A == <<SEG_A_100>>
DS_AB == <<SEG_A_101, SEG_B_100, SEG_JUNK, P_JUNK>>

\* Titles that carry the words of two stages
T_BODY_WELD_GRIND == KW_BODY \o KW_WELD_BU \o KW_GRIND_ZH
T_BODY_UNREGEN_GRIND == KW_BODY \o KW_UNREGEN_ZH \o KW_GRIND_ZH
T_BODY_UNREGEN_WELD == KW_BODY \o KW_UNREGEN_ZH \o KW_WELD_BU

\* The items of a family of documents: the stages of the parts, the rule
\* lookup, the titles with the words of several stages
ProcItems(dom) ==
    IF dom = "stages"
    THEN {[item_title |-> t, ds |-> ds] : t \in {T_BODY_WELD, T_BODY_REGEN}, ds \in {DS_A, DS_AB}}
         \cup
         {[item_title |-> t, ds |-> DS_A] :
             t \in {T_BODY_UNREGEN, T_BODY_GRIND, T_JOURNAL_REGEN, T_BODY_BALANCE, T_OTHER}}
    ELSE IF dom = "lookup"
    THEN {[item_title |-> t, ds |-> DS_A] : t \in {T_BODY_REGEN, T_OTHER}}
    ELSE {[item_title |-> t, ds |-> DS_A] :
             t \in {T_BODY_WELD_GRIND, T_BODY_UNREGEN_GRIND, T_BODY_UNREGEN_WELD,
                    T_BODY_UNREGEN, T_BODY_WELD, T_BODY_REGEN, T_BODY_GRIND, T_OTHER}}

\* Two rule names and two rules of different lengths, for the rule lookup
N_FIRST == <<"n", "1">>
N_SECOND == <<"n", "2">>
RULE_SHORT == KW_BODY \o KW_UNREGEN_ZH
RULE_LONG == KW_BODY \o KW_UNREGEN_ZH \o KW_ROUGH

ProcTables(dom) ==
    IF dom = "stages"
    THEN {<<>>,
          <<ProcTableRow(T_OTHER, KW_BODY \o KW_UNREGEN_ZH)>>,
          <<ProcTableRow(T_BODY_WELD, <<"s", "k", "i", "p">>)>>}
    ELSE IF dom = "lookup"
    THEN {<<ProcTableRow(N_FIRST, RULE_SHORT), ProcTableRow(N_SECOND, RULE_LONG)>>,
          <<ProcTableRow(N_FIRST, RULE_LONG), ProcTableRow(N_SECOND, RULE_SHORT)>>}
    ELSE {<<>>, <<ProcTableRow(T_OTHER, KW_BODY \o KW_REGEN_ZH)>>}

\* History: the rule names that share the best accepted score of the fuzzy
\* pass; none when the pass is not reached
Tied(map, title_clean, scores) ==
    LET sc(k) == token_sort_ratio(map[k].name, title_clean, scores[k])
        accepted == {k \in 1..Len(map) : sc(k) > PROCESS_THRESHOLD}
    IN  IF InRules(map, title_clean) \/ InRules(map, RemoveParens(title_clean, 1))
        THEN {}
        ELSE {k \in accepted : \A j \in accepted : sc(j) <= sc(k)}

ProcPaged(item, page, forced, tied) ==
    [page |-> page, item_title |-> item.item_title, ds |-> item.ds, forced |-> forced,
     tied |-> tied]

---------------------------------------------------------------------------
(* The function, step by step                                              *)

ProcStart(dom) ==
    /\ p_dom = dom
    /\ p_pc = "load"
    /\ p_n = 0
    /\ p_rules = <<>>
    /\ p_items = <<>>
    /\ p_history = <<>>
    /\ p_issues = <<>>
    /\ ClsIdle /\ NumIdle /\ ConIdle /\ AccIdle /\ ExtIdle

ProcInit == ProcStart("stages")

LookupInit == ProcStart("lookup")

TitlesInit == ProcStart("titles")

\* 2. rules.xlsx is read; a file that cannot be read leaves rules_map empty
ProcLoadRules ==
    /\ p_pc = "load"
    /\ \E table \in ProcTables(p_dom) : p_rules' = ProcRulesMap(table)
    /\ p_pc' = "items"
    /\ UNCHANGED <<p_dom, p_n, p_items, p_history, p_issues>>
    /\ UNCHANGED <<clsVars, numVars, conVars, accVars, extVars>>

\* if not dimension_data: return []
ProcNoData ==
    /\ p_pc = "items"
    /\ p_n = 0
    /\ p_pc' = "done"
    /\ UNCHANGED <<p_dom, p_n, p_rules, p_items, p_history, p_issues>>
    /\ UNCHANGED <<clsVars, numVars, conVars, accVars, extVars>>

\* One item of dimension_data, from its rule to its entries in the history
ProcItem ==
    /\ p_pc = "items"
    /\ p_n < MaxProcItems
    /\ \E it \in ProcItems(p_dom), scores \in [1..Len(p_rules) -> ProcScores] :
         LET title_clean == Strip(clean_text(Strip(it.item_title)))
             forced == ProcForcedRule(p_rules, title_clean, scores)
             item == ProcPaged(it, p_n + 1, forced, Tied(p_rules, title_clean, scores))
         IN  /\ p_items' = Append(p_items, item)
             /\ p_history' = ProcRecord(p_history, item, forced)
    /\ p_n' = p_n + 1
    /\ UNCHANGED <<p_dom, p_pc, p_rules, p_issues>>
    /\ UNCHANGED <<clsVars, numVars, conVars, accVars, extVars>>

\* The items are read: the checks of the history come next
ProcItemsEnd ==
    /\ p_pc = "items"
    /\ p_n > 0
    /\ p_pc' = "check"
    /\ p_n' = 0
    /\ UNCHANGED <<p_dom, p_rules, p_items, p_history, p_issues>>
    /\ UNCHANGED <<clsVars, numVars, conVars, accVars, extVars>>

\* One entry of the history: its gap, then the order of its sizes
ProcCheck ==
    /\ p_pc = "check"
    /\ p_n < Len(p_history)
    /\ p_issues' = p_issues \o GapIssues(p_history[p_n + 1]) \o OrderIssues(p_history[p_n + 1])
    /\ p_n' = p_n + 1
    /\ UNCHANGED <<p_dom, p_pc, p_rules, p_items, p_history>>
    /\ UNCHANGED <<clsVars, numVars, conVars, accVars, extVars>>

\* return process_issues
ProcReturn ==
    /\ p_pc = "check"
    /\ p_n = Len(p_history)
    /\ p_pc' = "done"
    /\ UNCHANGED <<p_dom, p_n, p_rules, p_items, p_history, p_issues>>
    /\ UNCHANGED <<clsVars, numVars, conVars, accVars, extVars>>

ProcNext ==
    \/ ProcLoadRules
    \/ ProcNoData
    \/ ProcItem
    \/ ProcItemsEnd
    \/ ProcCheck
    \/ ProcReturn

SpecProcess == ProcInit /\ [][ProcNext]_vars

SpecLookup == LookupInit /\ [][ProcNext]_vars

SpecTitles == TitlesInit /\ [][ProcNext]_vars

---------------------------------------------------------------------------
(* Properties of the process engine                                        *)

\* The entries of the history whose checks are done
Checked == IF p_pc \in {"check", "done"} THEN 1..p_n ELSE {}

\* The issues of one kind that came from one entry of the history
ProcIssuesOf(issue_type, entry) ==
    {k \in 1..Len(p_issues) :
        /\ p_issues[k].issue_type = issue_type
        /\ p_issues[k].rid = entry.rid
        /\ p_issues[k].track = entry.track}

Recorded(entry) == {s \in Stages : entry.stages[s].has}

MaxRecorded(entry) == CHOOSE s \in Recorded(entry) : \A t \in Recorded(entry) : t <= s

Missing(entry) == {s \in Stages : s < MaxRecorded(entry) /\ s \notin Recorded(entry)}

Range(seq) == {seq[i] : i \in 1..Len(seq)}

\* C19: a (part id, track) pair with at least two recorded stages and a
\* stage missing below its highest recorded stage gets exactly one gap issue,
\* which names every missing stage; a pair whose history is complete, or
\* that has fewer than two recorded stages, gets no gap issue
C19_GapIssues ==
    \A h \in Checked :
       LET entry == p_history[h]
           gaps == ProcIssuesOf("gap", entry)
           due == Cardinality(Recorded(entry)) >= 2 /\ Missing(entry) # {}
       IN  /\ Cardinality(gaps) = IF due THEN 1 ELSE 0
           /\ \A k \in gaps : Range(p_issues[k].stages) = Missing(entry)

\* The ranks of the sizes: non-reconditioned 10, welded 40, reconditioned 30,
\* ground 20, by the number of the stage
RankOfSize == <<10, 40, 30, 20>>

\* The recorded value of the stage of the lower rank is not strictly smaller
\* than that of the stage of the higher rank
OutOfOrder(entry, s, t) ==
    LET lo == IF RankOfSize[s] < RankOfSize[t] THEN s ELSE t
        hi == IF RankOfSize[s] < RankOfSize[t] THEN t ELSE s
    IN  ~(entry.stages[lo].val < entry.stages[hi].val)

OrderIssuesOn(entry, s, t) ==
    {k \in ProcIssuesOf("order", entry) : p_issues[k].stages = <<s, t>>}

\* C20: for every two stages recorded for one (part id, track) there is an
\* issue of the order exactly when the stage of the lower rank (10, 20, 30,
\* 40 for non-reconditioned, ground, reconditioned, welded) has no strictly
\* smaller value than the stage of the higher rank; the issue carries both
\* values, and no pair of stages gets more than one
C20_SizeOrder ==
    \A h \in Checked :
       LET entry == p_history[h] IN
       /\ \A s, t \in Recorded(entry) :
             s < t =>
                /\ Cardinality(OrderIssuesOn(entry, s, t)) =
                      IF OutOfOrder(entry, s, t) THEN 1 ELSE 0
                /\ \A k \in OrderIssuesOn(entry, s, t) :
                      p_issues[k].vals = <<entry.stages[s].val, entry.stages[t].val>>
       /\ \A k \in ProcIssuesOf("order", entry) :
             \E s, t \in Recorded(entry) : s < t /\ p_issues[k].stages = <<s, t>>

\* One part has three stages on record, two of them equal in size and
\* reported, two of them in order and passed
C20_Witness ==
    /\ p_pc = "done"
    /\ \E h \in Checked :
          LET entry == p_history[h] IN
          /\ \E s, t \in Recorded(entry) :
                /\ s < t
                /\ entry.stages[s].val = entry.stages[t].val
                /\ OrderIssuesOn(entry, s, t) # {}
          /\ \E s, t \in Recorded(entry) :
                s < t /\ ~OutOfOrder(entry, s, t) /\ OrderIssuesOn(entry, s, t) = {}


\* C25: when several rule names share the best accepted score for a title,
\* the rule taken is the longest of their rules, wherever its row stands in
\* the table
C25_LongestOnTie ==
    \A i \in 1..Len(p_items) :
       Cardinality(p_items[i].tied) > 1 =>
          \A k \in p_items[i].tied : Len(p_items[i].forced) >= Len(p_rules[k].rule)

\* The stages on record that came from items without a rule
StagesByTitle ==
    {<<h, s>> \in (1..Len(p_history)) \X Stages :
        /\ p_history[h].stages[s].has
        /\ p_items[p_history[h].stages[s].page].forced = <<>>}

TitleRecorded(h, s) == p_items[p_history[h].stages[s].page].item_title

\* C26: an item without a rule whose title the classifier's keywords map to
\* min_limit is on record under the welded stage only, and one they map to
\* un_regen or max_limit under the non-reconditioned stage only
C26_StagePrecedence ==
    \A hs \in StagesByTitle :
       LET category == KeywordCategory(TitleRecorded(hs[1], hs[2])) IN
       /\ category = CAT_MIN => hs[2] = 2
       /\ category \in {CAT_UNREGEN, CAT_MAX} => hs[2] = 1

---------------------------------------------------------------------------
(* python_header_audit_batch: the job numbers in the text of the pages,    *)
(* the form of the job number and the two dates of the header              *)

\* Longest photo_gallery, in pages
MaxPages == 3

\* A value of a dict: a string, None, or a key that is absent
Str(s) == [kind |-> "str", s |-> s]
None == [kind |-> "None", s |-> <<>>]
Absent == [kind |-> "absent", s |-> <<>>]

\* d.get(key, default)
Get(v, default) == IF v.kind = "absent" THEN Str(default) ELSE v

UNKNOWN == <<"U", "n", "k", "n", "o", "w", "n">>

\* [A-Z0-9]
IsUpperAlnum(c) == IsDigit(c) \/ \E l \in DOMAIN UpperOf : UpperOf[l] = c

IsJobAt(txt, i) ==
    /\ i + 9 <= Len(txt)
    /\ txt[i] \in {"W", "R", "O", "Y"}
    /\ \A k \in 1..9 : IsUpperAlnum(txt[i + k])

\* re.findall(job_pattern, txt), from index i on: the matches from left to
\* right, none overlapping another
RECURSIVE FindJobs(_, _)
FindJobs(txt, i) ==
    IF i > Len(txt) THEN <<>>
    ELSE IF IsJobAt(txt, i) THEN <<SubSeq(txt, i, i + 9)>> \o FindJobs(txt, i + 10)
    ELSE FindJobs(txt, i + 1)

\* .upper().replace(" ", "").replace("-", "")
JobText(s) == RemoveChars(Upper(s), {" ", "-"})

HasJob(map, job) == \E k \in 1..Len(map) : map[k].job = job

\* found_jobs_map[job].append(page)
FoundPut(map, job, page) ==
    IF HasJob(map, job)
    THEN [k \in 1..Len(map) |->
            IF map[k].job = job
            THEN [job |-> job, pages |-> Append(map[k].pages, page)]
            ELSE map[k]]
    ELSE Append(map, [job |-> job, pages |-> <<page>>])

RECURSIVE FoundAll(_, _, _)
FoundAll(map, matches, page) ==
    IF matches = <<>> THEN map
    ELSE FoundAll(FoundPut(map, Head(matches), page), Tail(matches), page)

HdrIssue(issue_type, found, days) ==
    [issue_type |-> issue_type, found |-> found, days |-> days]

\* The issue of the mixed job numbers, when found_jobs_map has more than one
MixedIssues(found) ==
    IF Len(found) > 1 THEN <<HdrIssue("mixed", found, 0)>> ELSE <<>>

\* re.match(r"^[WROY][A-Z0-9]{9}$", clean_job): $ also stands before a last
\* line feed
JobFormatOk(clean_job) ==
    /\ IsJobAt(clean_job, 1)
    /\ \/ Len(clean_job) = 10
       \/ Len(clean_job) = 11 /\ clean_job[11] = "\n"

FormatIssues(job_no) ==
    LET ai_job == Get(job_no, UNKNOWN) IN
    IF ai_job.kind = "str" /\ ai_job.s # <<>> /\ ai_job.s # UNKNOWN
          /\ ~JobFormatOk(JobText(ai_job.s))
    THEN <<HdrIssue("format", <<>>, 0)>>
    ELSE <<>>

\* s.split("/"), from index i on
RECURSIVE SplitSlash(_, _, _)
SplitSlash(s, i, part) ==
    IF i > Len(s) THEN <<part>>
    ELSE IF s[i] = "/" THEN <<part>> \o SplitSlash(s, i + 1, <<>>)
    ELSE SplitSlash(s, i + 1, Append(part, s[i]))

IsLeap(y) == (y % 4 = 0 /\ y % 100 # 0) \/ y % 400 = 0

DaysIn(y, m) ==
    IF m = 2 THEN (IF IsLeap(y) THEN 29 ELSE 28)
    ELSE IF m \in {4, 6, 9, 11} THEN 30
    ELSE 31

NoDate == [ok |-> FALSE, y |-> 0, m |-> 0, d |-> 0]

\* datetime.strptime(d.replace("-", "/"), "%Y/%m/%d"): four digits of year,
\* one or two of month and of day, a day the month has; ok is FALSE where
\* strptime raises ValueError
strptime(text) ==
    LET parts == SplitSlash([i \in 1..Len(text) |-> IF text[i] = "-" THEN "/" ELSE text[i]],
                            1, <<>>)
        Digits(p, lo, hi) == Len(p) >= lo /\ Len(p) <= hi /\ IsDigitStr(p)
    IN  IF /\ Len(parts) = 3
           /\ Digits(parts[1], 4, 4)
           /\ Digits(parts[2], 1, 2)
           /\ Digits(parts[3], 1, 2)
        THEN LET y == DigitsVal(parts[1])
                 m == DigitsVal(parts[2])
                 d == DigitsVal(parts[3])
             IN  IF y >= 1 /\ m >= 1 /\ m <= 12 /\ d >= 1 /\ d <= DaysIn(y, m)
                 THEN [ok |-> TRUE, y |-> y, m |-> m, d |-> d]
                 ELSE NoDate
        ELSE NoDate

\* dt_act < dt_sch
DateBefore(dt_act, dt_sch) ==
    \/ dt_act.y < dt_sch.y
    \/ dt_act.y = dt_sch.y /\ dt_act.m < dt_sch.m
    \/ dt_act.y = dt_sch.y /\ dt_act.m = dt_sch.m /\ dt_act.d < dt_sch.d

\* dt_act > dt_sch
DateAfter(dt_act, dt_sch) ==
    \/ dt_act.y > dt_sch.y
    \/ dt_act.y = dt_sch.y /\ dt_act.m > dt_sch.m
    \/ dt_act.y = dt_sch.y /\ dt_act.m = dt_sch.m /\ dt_act.d > dt_sch.d

\* The number of the day, counted from a day before every date of the model
RECURSIVE DaysBeforeYear(_)
DaysBeforeYear(y) ==
    IF y <= 2023 THEN 0
    ELSE DaysBeforeYear(y - 1) + (IF IsLeap(y - 1) THEN 366 ELSE 365)

RECURSIVE DaysBeforeMonth(_, _)
DaysBeforeMonth(y, m) == IF m <= 1 THEN 0 ELSE DaysBeforeMonth(y, m - 1) + DaysIn(y, m - 1)

Ordinal(dt) == DaysBeforeYear(dt.y) + DaysBeforeMonth(dt.y, dt.m) + dt.d

\* The issue of the dates; a value that is no string makes .replace raise,
\* and the except clause passes on that as it does on ValueError
DateIssues(scheduled_date, actual_date) ==
    LET d_sch == Get(scheduled_date, UNKNOWN)
        d_act == Get(actual_date, UNKNOWN)
    IN  IF d_sch # Str(UNKNOWN) /\ d_act # Str(UNKNOWN)
              /\ d_sch.kind = "str" /\ d_act.kind = "str"
        THEN LET dt_sch == strptime(d_sch.s)
                 dt_act == strptime(d_act.s)
             IN  IF dt_sch.ok /\ dt_act.ok /\ DateAfter(dt_act, dt_sch)
                 THEN <<HdrIssue("late", <<>>, Ordinal(dt_act) - Ordinal(dt_sch))>>
                 ELSE <<>>
        ELSE <<>>

---------------------------------------------------------------------------
(* The pages and the headers the function is run on                        *)

JOB_A == <<"W", "1", "2", "3", "4", "5", "6", "7", "A", "B">>
JOB_B == <<"W", "9", "8", "7", "6", "5", "4", "3", "Z", "Z">>

\* The job number B as a page may write it
JOB_B_WRITTEN == <<"w", "9", "8", "-", "7", "6", "5", " ", "4", "3", "z", "z">>

TXT_A == <<"N", "o", ":", " ">> \o JOB_A \o <<"\n">>
TXT_B == JOB_B_WRITTEN \o <<" ", "x">>
TXT_A_B == JOB_A \o <<"/">> \o JOB_B \o <<"/">> \o JOB_A
TXT_PLAIN == <<"W", "1", "2", "3", "\n", "r", "o", "l", "l">>

PageTexts == {Str(TXT_A), Str(TXT_B), Str(TXT_A_B), Str(TXT_PLAIN), None, Absent}

Page(full_text) == [full_text |-> full_text]

Galleries(texts) ==
    UNION {[1..n -> {Page(t) : t \in texts}] : n \in 0..MaxPages}

D_0105 == <<"2", "0", "2", "4", "/", "0", "1", "/", "0", "5">>
D_0105_SHORT == <<"2", "0", "2", "4", "-", "1", "-", "5">>
D_0229 == <<"2", "0", "2", "4", "/", "0", "2", "/", "2", "9">>
D_0230 == <<"2", "0", "2", "4", "/", "0", "2", "/", "3", "0">>
D_1301 == <<"2", "0", "2", "4", "/", "1", "3", "/", "0", "1">>
D_2025 == <<"2", "0", "2", "5", "-", "0", "1", "-", "0", "1">>
D_WORDS == <<"J", "a", "n", " ", "5">>

Dates ==
    {Str(D_0105), Str(D_0105_SHORT), Str(D_0229), Str(D_0230), Str(D_1301),
     Str(D_2025), Str(D_WORDS), Str(UNKNOWN), Str(<<>>), None, Absent}

JobNos == {Str(JOB_A), Str(JOB_B_WRITTEN), Str(TXT_PLAIN), Str(UNKNOWN), None, Absent}

HeaderInfo(job_no, scheduled_date, actual_date) ==
    [job_no |-> job_no, scheduled_date |-> scheduled_date, actual_date |-> actual_date]

\* ai_res_json without header_info: h_info is {}
NoHeaderInfo == HeaderInfo(Absent, Absent, Absent)

---------------------------------------------------------------------------
(* The function, step by step                                              *)

HdrStart(galleries, infos) ==
    /\ h_pc = "scan"
    /\ h_n = 0
    /\ h_gallery \in galleries
    /\ h_info \in infos
    /\ h_found = <<>>
    /\ h_issues = <<>>
    /\ EnginesIdle /\ AppIdle

\* Every gallery of the model, under two headers
HdrInit ==
    HdrStart(Galleries(PageTexts),
             {NoHeaderInfo, HeaderInfo(Str(JOB_A), Str(D_0105), Str(D_0229))})

\* Every header of the model, over three galleries
DatesInit ==
    HdrStart({<<>>, <<Page(Str(TXT_A))>>, <<Page(Str(TXT_A)), Page(None)>>},
             {HeaderInfo(j, s, a) : j \in JobNos, s \in Dates, a \in Dates})

\* One page: its text is searched for job numbers
HdrScanPage ==
    /\ h_pc = "scan"
    /\ h_n < Len(h_gallery)
    /\ LET item == h_gallery[h_n + 1]
           full_text == Get(item.full_text, <<>>)
       IN  /\ full_text.kind = "str"
           /\ h_found' = FoundAll(h_found, FindJobs(JobText(full_text.s), 1), h_n + 1)
    /\ h_n' = h_n + 1
    /\ UNCHANGED <<h_pc, h_gallery, h_info, h_issues>>
    /\ UNCHANGED <<engineVars, appVars>>

\* One page whose full_text is None: None has no upper()
HdrScanRaises ==
    /\ h_pc = "scan"
    /\ h_n < Len(h_gallery)
    /\ Get(h_gallery[h_n + 1].full_text, <<>>).kind = "None"
    /\ h_pc' = "raised"
    /\ UNCHANGED <<h_n, h_gallery, h_info, h_found, h_issues>>
    /\ UNCHANGED <<engineVars, appVars>>

\* The pages are read: more than one job number is an issue
HdrMixed ==
    /\ h_pc = "scan"
    /\ h_n = Len(h_gallery)
    /\ h_issues' = h_issues \o MixedIssues(h_found)
    /\ h_pc' = "format"
    /\ UNCHANGED <<h_n, h_gallery, h_info, h_found>>
    /\ UNCHANGED <<engineVars, appVars>>

\* The form of the job number the header gives
HdrFormat ==
    /\ h_pc = "format"
    /\ h_issues' = h_issues \o FormatIssues(h_info.job_no)
    /\ h_pc' = "dates"
    /\ UNCHANGED <<h_n, h_gallery, h_info, h_found>>
    /\ UNCHANGED <<engineVars, appVars>>

\* The two dates of the header
HdrDates ==
    /\ h_pc = "dates"
    /\ h_issues' = h_issues \o DateIssues(h_info.scheduled_date, h_info.actual_date)
    /\ h_pc' = "return"
    /\ UNCHANGED <<h_n, h_gallery, h_info, h_found>>
    /\ UNCHANGED <<engineVars, appVars>>

\* return header_issues
HdrReturn ==
    /\ h_pc = "return"
    /\ h_pc' = "done"
    /\ UNCHANGED <<h_n, h_gallery, h_info, h_found, h_issues>>
    /\ UNCHANGED <<engineVars, appVars>>

HdrNext ==
    \/ HdrScanPage
    \/ HdrScanRaises
    \/ HdrMixed
    \/ HdrFormat
    \/ HdrDates
    \/ HdrReturn

SpecHeader == HdrInit /\ [][HdrNext]_vars

SpecDates == DatesInit /\ [][HdrNext]_vars

---------------------------------------------------------------------------
(* Properties of the header audit                                          *)

\* The job numbers in the text of page n; None and an absent text hold none
JobsOnPage(n) ==
    LET full_text == h_gallery[n].full_text IN
    IF full_text.kind = "str" THEN Range(FindJobs(JobText(full_text.s), 1)) ELSE {}

JobsInGallery == UNION {JobsOnPage(n) : n \in 1..Len(h_gallery)}

HdrIssuesOf(issue_type) == {k \in 1..Len(h_issues) : h_issues[k].issue_type = issue_type}

\* C21: when the call is over there is exactly one issue of mixed job numbers
\* if the texts of the pages hold more than one job number, and it lists
\* every job number with the pages it is on; there is none if they hold at
\* most one
C21_MixedJobs ==
    h_pc \in {"done", "raised"} =>
       /\ Cardinality(HdrIssuesOf("mixed")) = IF Cardinality(JobsInGallery) > 1 THEN 1 ELSE 0
       /\ \A k \in HdrIssuesOf("mixed") :
             /\ {e.job : e \in Range(h_issues[k].found)} = JobsInGallery
             /\ \A e \in Range(h_issues[k].found) :
                   Range(e.pages) = {n \in 1..Len(h_gallery) : e.job \in JobsOnPage(n)}

\* Both dates of the header are strings that strptime reads
BothDatesRead ==
    /\ h_info.scheduled_date.kind = "str"
    /\ h_info.actual_date.kind = "str"
    /\ strptime(h_info.scheduled_date.s).ok
    /\ strptime(h_info.actual_date.s).ok

DayOf(date) == Ordinal(strptime(date.s))

\* C22 as the specification states it: the issue of the dates is raised
\* when the scheduled date is after the actual date
C22_Original ==
    h_pc = "done" =>
       Cardinality(HdrIssuesOf("late")) =
          IF BothDatesRead /\ DayOf(h_info.scheduled_date) > DayOf(h_info.actual_date)
          THEN 1 ELSE 0

\* C22: when the function returns, there is one issue of the dates if both
\* dates are read and the actual date is after the scheduled date, and it
\* gives the days between them; there is none if the actual date is on or
\* before the scheduled date, or if a date is missing or cannot be read
C22_DateOrder ==
    h_pc = "done" =>
       /\ Cardinality(HdrIssuesOf("late")) =
             IF BothDatesRead /\ DayOf(h_info.actual_date) > DayOf(h_info.scheduled_date)
             THEN 1 ELSE 0
       /\ \A k \in HdrIssuesOf("late") :
             h_issues[k].days = DayOf(h_info.actual_date) - DayOf(h_info.scheduled_date)

\* Two dates written in different ways, the actual one later: reported
C22_Witness ==
    /\ h_pc = "done"
    /\ h_info.scheduled_date = Str(D_0105_SHORT)
    /\ h_info.actual_date = Str(D_0229)
    /\ HdrIssuesOf("late") # {}

---------------------------------------------------------------------------
(* Properties of the parser of the intervals                               *)

\* The parts of the spec text of the item under audit, cleaned, the empty
\* ones left out
SpecParts ==
    SelectSeq([i \in 1..Len(SplitSpec(RawSpec(n_item.std_spec), 1, <<>>)) |->
                  CleanPart(SplitSpec(RawSpec(n_item.std_spec), 1, <<>>)[i])],
              LAMBDA part : part # <<>>)

\* The intervals of the parts, one part after another
RECURSIVE IntervalsOf(_, _)
IntervalsOf(PartIntervals(_), parts) ==
    IF parts = <<>> THEN <<>>
    ELSE PartIntervals(Head(parts)) \o IntervalsOf(PartIntervals, Tail(parts))

\* |a - b| < 0.5 * a
GuardPasses(pair) == 2 * Abs(pair[1] - pair[2]) < pair[1]

HasPm(part) == PmRanges(part, 1) # <<>>

PassingPairs(part) == SelectSeq(TildePairs(part, 1), GuardPasses)

FailingPairs(part) == SelectSeq(TildePairs(part, 1), LAMBDA pair : ~GuardPasses(pair))

PairIntervals(part) ==
    [i \in 1..Len(PassingPairs(part)) |->
        <<SetMin({PassingPairs(part)[i][1], PassingPairs(part)[i][2]}),
          SetMax({PassingPairs(part)[i][1], PassingPairs(part)[i][2]})>>]

\* One part, one notation: a pair that fails the guard sends the part to the
\* base/offset rule, whatever the other pairs of the part do
OneNotationAsStated(part) ==
    IF HasPm(part) THEN PmRanges(part, 1)
    ELSE IF TildePairs(part, 1) # <<>> /\ FailingPairs(part) = <<>> THEN PairIntervals(part)
    ELSE PairIntervals(part) \o BaseOffsetRanges(part)

\* One part, one notation: the base/offset rule is for the parts none of
\* whose pairs passes the guard
OneNotation(part) ==
    IF HasPm(part) THEN PmRanges(part, 1)
    ELSE IF PassingPairs(part) # <<>> THEN PairIntervals(part)
    ELSE BaseOffsetRanges(part)

\* An item is under audit: s_ranges is that of its spec text
UnderAudit == n_domain = "parser" /\ n_pc = "entries"

\* C23 as the specification states it: a part with a pair that fails the
\* guard is parsed by the base/offset rule
C23_Original == UnderAudit => s_ranges = IntervalsOf(OneNotationAsStated, SpecParts)

\* C23: in one part of the spec text one notation is applied: the intervals
\* base-offset to base+offset (base 0 when left out) if the part has a
\* plus-minus match, and nothing else; otherwise the interval min to max of
\* every pair whose guard |a-b| < 0.5a passes, the failing pairs of the part
\* being dropped; and the base/offset rule only when no pair of the part
\* passes the guard
C23_OneNotation == UnderAudit => s_ranges = IntervalsOf(OneNotation, SpecParts)

\* "150~155,160-0.01": the pair that passes is the only interval
C23_Witness ==
    /\ UnderAudit
    /\ n_item.std_spec = S_MIXED
    /\ s_ranges = <<(<<150 * Scale, 155 * Scale>>)>>

\* The signed numbers of a part
SignedNumbers(part) ==
    [i \in 1..Len(FindSignedNums(part, 1)) |-> SFloat(FindSignedNums(part, 1)[i])]

\* The interval of one base: the base alone without offsets, the base and its
\* sum with a single offset, the sums with several offsets
BaseInterval(b, offsets) ==
    LET sums == {b + offsets[j] : j \in 1..Len(offsets)}
        ends == IF Len(offsets) = 0 THEN {b}
                ELSE IF Len(offsets) = 1 THEN sums \cup {b}
                ELSE sums
    IN  <<SetMin(ends), SetMax(ends)>>

BaseOffsetIntervals(part) ==
    LET bases == SelectSeq(SignedNumbers(part), LAMBDA v : v > 10 * Scale)
        offsets == SelectSeq(SignedNumbers(part), LAMBDA v : v > 0 - 10 * Scale /\ v < 10 * Scale)
    IN  [i \in 1..Len(bases) |-> BaseInterval(bases[i], offsets)]

\* Every part of the spec text falls to the base/offset rule
AllBaseOffset ==
    /\ UnderAudit
    /\ \A i \in 1..Len(SpecParts) : ~HasPm(SpecParts[i]) /\ PassingPairs(SpecParts[i]) = <<>>

\* C24 as the specification states it: bases by magnitude, and the interval
\* of a base from its sums with the offsets alone
C24_Original ==
    AllBaseOffset => s_ranges = IntervalsOf(BaseOffsetRangesByMagnitude, SpecParts)

\* C24: in the base/offset rule the numbers above 10 are bases and the
\* numbers of magnitude below 10 are offsets (a number of -10 or less, or of
\* magnitude 10, is neither); a base without offsets gives [base, base], a
\* base with one offset the interval between the base and base+offset, a base
\* with several offsets the interval from the least to the greatest
\* base+offset; a part without a number gives no interval
C24_BaseOffset ==
    AllBaseOffset => s_ranges = IntervalsOf(BaseOffsetIntervals, SpecParts)

\* "160-0.01": the base is an end of the interval
C24_Witness ==
    /\ AllBaseOffset
    /\ n_item.std_spec = S_TOLERANCE
    /\ s_ranges = <<(<<160 * Scale - 100, 160 * Scale>>)>>


----------------------------------------------------------------------------
(* The analysis run, lines 1558-1568: the classification loop writes the   *)
(* category and sl.lt of every item of dimension_data, then the engines    *)
(* are called on the list. The source calls them in the order numerical,   *)
(* accounting, process; the model runs them in every order, each engine    *)
(* reading the fields its loop reads and writing what its code writes of   *)
(* the items.                                                              *)

MaxPlItems == 2

ENGINE_NUMERICAL == "python_numerical_audit"
ENGINE_ACCOUNTING == "python_accounting_audit"
ENGINE_PROCESS == "python_process_audit"
Engines == {ENGINE_NUMERICAL, ENGINE_ACCOUNTING, ENGINE_PROCESS}

\* The order of the calls at lines 1564-1566
SourceOrder == <<ENGINE_NUMERICAL, ENGINE_ACCOUNTING, ENGINE_PROCESS>>

EngineOrders ==
    {o \in [1..3 -> Engines] : \A e \in Engines : \E i \in 1..3 : o[i] = e}

\* assign_category_by_python with the rule the table resolves for the title
\* (<<>> when no row scores above 85 or the table cannot be read)
assign_category_by_python(item_title, rule) ==
    IF HasExemptKeyword(item_title) THEN CAT_EXEMPT
    ELSE IF rule # <<>> /\ RuleCategory(rule) # <<>> THEN RuleCategory(rule)
    ELSE KeywordCategory(item_title)

\* The loop body that leaves sl as the extraction returned it
ClassifyItemCategoryOnly(item, rule) ==
    LET new_cat == assign_category_by_python(item.item_title, rule) IN
    [item EXCEPT !.category = new_cat]

\* The body of the loop at lines 1559-1563 on one item
ClassifyItem(item, rule) ==
    LET new_cat == assign_category_by_python(item.item_title, rule) IN
    [item EXCEPT !.category = new_cat, !.has_sl = TRUE, !.lt = new_cat]

\* dim_data with every item classified
Classified(items, rules) ==
    [i \in 1..Len(items) |-> ClassifyItem(items[i], rules[i])]

\* What each engine's loop reads of the items: lines 629-630 and 726-727,
\* line 910, line 1158
EngineReads(engine, items) ==
    [i \in 1..Len(items) |->
        IF engine = ENGINE_NUMERICAL
        THEN [title |-> RemoveChars(items[i].item_title, {" ", "\""}),
              cat |-> Strip(items[i].category),
              l_type |-> IF items[i].has_sl THEN items[i].lt ELSE <<>>]
        ELSE IF engine = ENGINE_ACCOUNTING
        THEN [title |-> items[i].item_title, cat |-> <<>>, l_type |-> <<>>]
        ELSE [title |-> Strip(items[i].item_title), cat |-> <<>>, l_type |-> <<>>]]

\* What an engine leaves of the list it was given: its assignments go to
\* rules_map, grouped_errors, global_sum_tracker, history and the issue
\* lists, none to an item
ItemsAfter(engine, items) == items

\* The items of one extraction: the model's answer for category and sl may
\* be missing or differ from the classifier's
PlTitles == {T_BODY_UNREGEN, T_BODY_WELD, T_BODY_BALANCE}
PlItemsIn ==
    {[item_title |-> t, category |-> <<>>, has_sl |-> FALSE, lt |-> <<>>] :
        t \in PlTitles}
    \cup {[item_title |-> t, category |-> CAT_RANGE, has_sl |-> TRUE,
           lt |-> CAT_RANGE] : t \in PlTitles}
    \cup {[item_title |-> T_BODY_WELD, category |-> <<>>, has_sl |-> TRUE,
           lt |-> <<>>]}

PlRuleVals == {<<>>, KW_EXEMPT_ZH}

PlInit ==
    /\ pl_pc = "classify"
    /\ \E n \in 0..MaxPlItems :
          /\ pl_ai \in [1..n -> PlItemsIn]
          /\ pl_rules \in [1..n -> PlRuleVals]
    /\ \A i, j \in 1..Len(pl_ai) :
          pl_ai[i].item_title = pl_ai[j].item_title => pl_rules[i] = pl_rules[j]
    /\ pl_items = pl_ai
    /\ pl_i = 0
    /\ pl_order \in EngineOrders
    /\ pl_read = <<>>
    /\ EnginesIdle /\ HdrIdle /\ OcrIdle /\ UiIdle

\* for item in dim_data: one item
PlClassify ==
    /\ pl_pc = "classify"
    /\ pl_i < Len(pl_items)
    /\ pl_items' = [pl_items EXCEPT ![pl_i + 1] = ClassifyItem(@, pl_rules[pl_i + 1])]
    /\ pl_i' = pl_i + 1
    /\ UNCHANGED <<pl_pc, pl_ai, pl_rules, pl_order, pl_read>>
    /\ UNCHANGED <<engineVars, hdrVars, ocrVars, uiVars>>

\* The loop is over
PlClassified ==
    /\ pl_pc = "classify"
    /\ pl_i = Len(pl_items)
    /\ pl_pc' = "engines"
    /\ UNCHANGED <<pl_ai, pl_items, pl_i, pl_rules, pl_order, pl_read>>
    /\ UNCHANGED <<engineVars, hdrVars, ocrVars, uiVars>>

\* One engine is called on dim_data
PlEngine ==
    /\ pl_pc = "engines"
    /\ pl_order # <<>>
    /\ LET engine == Head(pl_order) IN
       /\ pl_read' = Append(pl_read, [engine |-> engine,
                                      read |-> EngineReads(engine, pl_items)])
       /\ pl_items' = ItemsAfter(engine, pl_items)
    /\ pl_order' = Tail(pl_order)
    /\ UNCHANGED <<pl_pc, pl_ai, pl_i, pl_rules>>
    /\ UNCHANGED <<engineVars, hdrVars, ocrVars, uiVars>>

\* The issue lists are joined and the result is stored
PlStore ==
    /\ pl_pc = "engines"
    /\ pl_order = <<>>
    /\ pl_pc' = "stored"
    /\ UNCHANGED <<pl_ai, pl_items, pl_i, pl_rules, pl_order, pl_read>>
    /\ UNCHANGED <<engineVars, hdrVars, ocrVars, uiVars>>

PlNext ==
    \/ PlClassify
    \/ PlClassified
    \/ PlEngine
    \/ PlStore

SpecPipeline == PlInit /\ [][PlNext]_vars

\* The engines that have read the list
EnginesRun == {pl_read[k].engine : k \in 1..Len(pl_read)}

----------------------------------------------------------------------------
(* The OCR step, lines 1519-1533: one process_task per gallery entry is    *)
(* submitted to a ThreadPoolExecutor of 4 workers; the main thread takes   *)
(* the futures as they complete and updates the entry of each task whose   *)
(* error string is falsy.                                                  *)

\* Longest photo_gallery of the OCR step, in pages
MaxOcrPages == 5

max_workers == 4

\* Python truthiness of a value of a dict
Truthy(v) == v.kind = "str" /\ v.s # <<>>

\* One gallery entry; file is TRUE for an upload handle, FALSE for None
Entry(header_text, full_text, file) ==
    [header_text |-> header_text, full_text |-> full_text, file |-> file]

\* What the service reads on page i: the texts carry the page they came from
PageDigit(i) == <<"1", "2", "3", "4", "5", "6", "7", "8", "9">>[i]
AzureHeader(i) == Str(<<"H">> \o <<PageDigit(i)>>)
AzureFull(i) == Str(<<"F">> \o <<PageDigit(i)>>)

\* str(e) of the exception a task caught: a message, or the empty string of an
\* exception raised without arguments
ERR_MESSAGE == <<"s", "e", "r", "v", "i", "c", "e">>
ErrStrings == {ERR_MESSAGE, <<>>}

\* The entries a gallery holds when the step begins: a photo not read yet
\* (line 1390), a page loaded from a file with its text, a page read before
EntriesIn ==
    {Entry(None, None, TRUE),
     Entry(Str(<<>>), Str(<<"T">>), FALSE),
     Entry(Str(<<"H">>), Str(<<"T">>), FALSE)}

\* A task before it returns
NoReturn == [raised |-> FALSE, h_txt |-> None, f_txt |-> None, err |-> None]

\* process_task(index, item): what it returns. raised records whether the
\* except clause was taken
TaskReturns(i, item) ==
    IF Truthy(item.full_text)
    THEN {[raised |-> FALSE, h_txt |-> item.header_text,
           f_txt |-> item.full_text, err |-> None]}
    ELSE {[raised |-> FALSE, h_txt |-> AzureHeader(i), f_txt |-> AzureFull(i),
           err |-> None]}
         \cup {[raised |-> TRUE, h_txt |-> None, f_txt |-> None, err |-> Str(e)] :
                  e \in ErrStrings}

\* photo_gallery[idx].update({...}) under "if not err"
Collected(entry, ret) ==
    IF ~Truthy(ret.err)
    THEN Entry(ret.h_txt, ret.f_txt, FALSE)
    ELSE entry

Running == {i \in 1..Len(o_task) : o_task[i] = "running"}
Queued == {i \in 1..Len(o_task) : o_task[i] = "queued"}

OcrInit ==
    /\ o_pc = "pool"
    /\ \E n \in 0..MaxOcrPages : o_gallery \in [1..n -> EntriesIn]
    /\ o_orig = o_gallery
    /\ o_task = [i \in 1..Len(o_gallery) |-> "queued"]
    /\ o_ret = [i \in 1..Len(o_gallery) |-> NoReturn]
    /\ EnginesIdle /\ HdrIdle /\ PlIdle /\ UiIdle

\* A free worker takes the next task of the queue
OcrStart ==
    /\ o_pc = "pool"
    /\ Queued # {}
    /\ Cardinality(Running) < max_workers
    /\ LET i == CHOOSE i \in Queued : \A j \in Queued : i <= j IN
       o_task' = [o_task EXCEPT ![i] = "running"]
    /\ UNCHANGED <<o_pc, o_gallery, o_orig, o_ret>>
    /\ UNCHANGED <<engineVars, hdrVars, plVars, uiVars>>

\* A running task returns; the tasks return in any order
OcrReturn ==
    /\ o_pc = "pool"
    /\ \E i \in Running :
          /\ \E ret \in TaskReturns(i, o_gallery[i]) :
                o_ret' = [o_ret EXCEPT ![i] = ret]
          /\ o_task' = [o_task EXCEPT ![i] = "returned"]
    /\ UNCHANGED <<o_pc, o_gallery, o_orig>>
    /\ UNCHANGED <<engineVars, hdrVars, plVars, uiVars>>

\* as_completed hands a finished future to the main thread
OcrCollect ==
    /\ o_pc = "pool"
    /\ \E idx \in 1..Len(o_task) :
          /\ o_task[idx] = "returned"
          /\ o_gallery' = [o_gallery EXCEPT ![idx] = Collected(@, o_ret[idx])]
          /\ o_task' = [o_task EXCEPT ![idx] = "collected"]
    /\ UNCHANGED <<o_pc, o_orig, o_ret>>
    /\ UNCHANGED <<engineVars, hdrVars, plVars, uiVars>>

\* Every future has been taken: the with block ends
OcrDone ==
    /\ o_pc = "pool"
    /\ \A i \in 1..Len(o_task) : o_task[i] = "collected"
    /\ o_pc' = "done"
    /\ UNCHANGED <<o_gallery, o_orig, o_task, o_ret>>
    /\ UNCHANGED <<engineVars, hdrVars, plVars, uiVars>>

OcrNext ==
    \/ OcrStart
    \/ OcrReturn
    \/ OcrCollect
    \/ OcrDone

SpecOcr == OcrInit /\ [][OcrNext]_vars

\* C28: never more than 4 tasks run at once; when the step is over, the entry
\* of every page whose task succeeded holds the header and full text that
\* task returned, and the entry of every page whose task failed is as the
\* step found it.
C28_CollectedByIndex ==
    /\ Cardinality(Running) <= max_workers
    /\ o_pc = "done" =>
          \A i \in 1..Len(o_gallery) :
             IF o_ret[i].raised
             THEN o_gallery[i] = o_orig[i]
             ELSE /\ o_gallery[i].header_text = o_ret[i].h_txt
                  /\ o_gallery[i].full_text = o_ret[i].f_txt

----------------------------------------------------------------------------
(* The page, lines 1362-1975: one run of the script per user event, run    *)
(* again after every st.rerun(). The session state is carried from run to  *)
(* run; a displayed result is the analysis_result_cache shown at line 1616 *)
(* while the gallery is not empty.                                        *)

\* Longest photo_gallery of the page, in pages
MaxGallery == 3

SOURCE_PHOTOS == "photos"
SOURCE_JSON == "json"
SOURCE_EXCEL == "excel"

\* One gallery entry: the file or sheet it came from, and whether it still
\* holds its upload ('file' is not None)
GalleryEntry(name, file) == [name |-> name, file |-> file]

PhotoNames == {"p1", "p2"}
PhotoUploads == {<<"p1">>, <<"p2">>, <<"p1", "p2">>}
JsonFiles == {"j1", "j2"}
ExcelFiles == {"x1"}

\* The pages a JSON file or the sheets an Excel file holds
FilePages(name) ==
    IF name = "j2"
    THEN <<GalleryEntry("j2a", FALSE), GalleryEntry("j2b", FALSE)>>
    ELSE <<GalleryEntry(name, FALSE)>>

\* The session state as one record
Session ==
    [gallery |-> u_gallery, mode |-> u_mode, cache |-> u_cache, auto |-> u_auto,
     enable |-> u_enable, source |-> u_source, held |-> u_held,
     json_name |-> u_json_name, xlsx_name |-> u_xlsx_name]

NoEvent == [type |-> "none", names |-> <<>>, name |-> "", idx |-> 0]
Event(type, names, name, idx) ==
    [type |-> type, names |-> names, name |-> name, idx |-> idx]

\* Lines 1384-1392: the new files are appended, a file whose name an entry
\* with a file already carries is passed over
RECURSIVE AddPhotos(_, _)
AddPhotos(gallery, names) ==
    IF names = <<>> THEN gallery
    ELSE LET f == Head(names)
             known == \E i \in 1..Len(gallery) :
                         gallery[i].file /\ gallery[i].name = f
         IN  AddPhotos(IF known THEN gallery ELSE Append(gallery, GalleryEntry(f, TRUE)),
                       Tail(names))

\* photo_gallery.pop(idx)
Pop(gallery, idx) ==
    [i \in 1..(Len(gallery) - 1) |-> IF i < idx THEN gallery[i] ELSE gallery[i + 1]]

\* Line 1531: the OCR step has read every page
AfterOcr(gallery) == [i \in 1..Len(gallery) |-> GalleryEntry(gallery[i].name, FALSE)]

\* The widgets take the event before the script body runs
Widgets(s, ev) ==
    [s EXCEPT !.enable = IF ev.type = "toggle" THEN ~@ ELSE @,
              !.source = IF ev.type = "radio" THEN ev.name ELSE @,
              !.held = IF ev.type = "radio" THEN ""
                       ELSE IF ev.type \in {"json", "excel"} THEN ev.name ELSE @]

\* Lines 1372-1374: the photo source drops a gallery loaded from a file
PhotoSource(s) ==
    IF s.source = SOURCE_PHOTOS /\ s.mode \in {"json", "excel"}
    THEN [s EXCEPT !.gallery = <<>>, !.mode = "image"]
    ELSE s

AutoFlag(s) == IF s.enable THEN TRUE ELSE s.auto

\* Lines 1490-1975: the part of the script under "if photo_gallery"
Lower(s, ev, stored) ==
    IF s.gallery = <<>> THEN [s |-> s, rerun |-> FALSE]
    ELSE IF ev.type = "clear"
    THEN [s |-> [s EXCEPT !.gallery = <<>>, !.cache = NoCache, !.json_name = ""],
          rerun |-> TRUE]
    ELSE IF ev.type = "start" \/ s.auto
    THEN IF stored
         THEN [s |-> [s EXCEPT !.auto = FALSE, !.gallery = AfterOcr(@),
                               !.cache = [set |-> TRUE, of |-> AfterOcr(s.gallery)]],
               rerun |-> TRUE]
         ELSE [s |-> [s EXCEPT !.auto = FALSE, !.gallery = AfterOcr(@),
                               !.cache = NoCache],
               rerun |-> FALSE]
    ELSE IF ev.type = "delete" /\ s.mode # "json"
    THEN [s |-> [s EXCEPT !.gallery = Pop(@, ev.idx), !.cache = NoCache],
          rerun |-> TRUE]
    ELSE [s |-> s, rerun |-> FALSE]

\* One run of the script on an event. stored tells whether an analysis that
\* starts in this run reaches line 1591 (otherwise it raises after the OCR)
Run(s0, ev, stored) ==
    LET s == PhotoSource(Widgets(s0, ev)) IN
    IF s.source = SOURCE_PHOTOS /\ ev.type = "photos"
    THEN [s |-> [s EXCEPT !.gallery = AddPhotos(@, ev.names), !.auto = AutoFlag(s)],
          rerun |-> TRUE]
    ELSE IF s.source = SOURCE_JSON /\ s.held # "" /\ s.json_name # s.held
    THEN [s |-> [s EXCEPT !.gallery = FilePages(s.held), !.mode = "json",
                          !.json_name = s.held, !.auto = AutoFlag(s)],
          rerun |-> TRUE]
    ELSE IF s.source = SOURCE_EXCEL /\ s.held # "" /\ s.xlsx_name # s.held
    THEN [s |-> [s EXCEPT !.gallery = FilePages(s.held), !.mode = "excel",
                          !.xlsx_name = s.held, !.auto = AutoFlag(s)],
          rerun |-> TRUE]
    ELSE Lower(s, ev, stored)

\* The script is run again, without an event, as long as it asks for it
RECURSIVE Settle(_, _, _)
Settle(s, ev, stored) ==
    LET r == Run(s, ev, stored) IN
    IF r.rerun THEN Settle(r.s, NoEvent, stored) ELSE r.s

\* The session state after the event
Becomes(ev, stored) ==
    LET s == Settle(Session, ev, stored) IN
    /\ u_gallery' = s.gallery
    /\ u_mode' = s.mode
    /\ u_cache' = s.cache
    /\ u_auto' = s.auto
    /\ u_enable' = s.enable
    /\ u_source' = s.source
    /\ u_held' = s.held
    /\ u_json_name' = s.json_name
    /\ u_xlsx_name' = s.xlsx_name
    /\ UNCHANGED <<engineVars, hdrVars, plVars, ocrVars>>

\* The first page: the query parameter "auto" sets the toggle
UiInit ==
    /\ u_gallery = <<>>
    /\ u_mode = "none"
    /\ u_cache = NoCache
    /\ u_auto = FALSE
    /\ u_enable \in BOOLEAN
    /\ u_source = SOURCE_PHOTOS
    /\ u_held = ""
    /\ u_json_name = ""
    /\ u_xlsx_name = ""
    /\ EnginesIdle /\ HdrIdle /\ PlIdle /\ OcrIdle

\* The user picks another data source
UiRadio ==
    /\ u_source \in {SOURCE_PHOTOS, SOURCE_JSON, SOURCE_EXCEL}
    /\ \E to \in {SOURCE_PHOTOS, SOURCE_JSON, SOURCE_EXCEL} \ {u_source},
          stored \in BOOLEAN :
          Becomes(Event("radio", <<>>, to, 0), stored)

\* The user switches "analyse after upload" on or off
UiToggle ==
    /\ u_enable \in BOOLEAN
    /\ \E stored \in BOOLEAN : Becomes(Event("toggle", <<>>, "", 0), stored)

\* The user uploads photos
UiUploadPhotos ==
    /\ u_source = SOURCE_PHOTOS
    /\ \E names \in PhotoUploads, stored \in BOOLEAN :
          /\ Len(PhotoSource(Session).gallery) + Len(names) <= MaxGallery
          /\ Becomes(Event("photos", names, "", 0), stored)

\* The user puts a file in the JSON uploader
UiLoadJson ==
    /\ u_source = SOURCE_JSON
    /\ \E name \in JsonFiles, stored \in BOOLEAN :
          Becomes(Event("json", <<>>, name, 0), stored)

\* The user puts a file in the Excel uploader
UiLoadExcel ==
    /\ u_source = SOURCE_EXCEL
    /\ \E name \in ExcelFiles, stored \in BOOLEAN :
          Becomes(Event("excel", <<>>, name, 0), stored)

\* The start button
UiStart ==
    /\ u_gallery # <<>>
    /\ \E stored \in BOOLEAN : Becomes(Event("start", <<>>, "", 0), stored)

\* The clear button
UiClear ==
    /\ u_gallery # <<>>
    /\ \E stored \in BOOLEAN : Becomes(Event("clear", <<>>, "", 0), stored)

\* The delete button of one page
UiDelete ==
    /\ u_gallery # <<>>
    /\ u_mode # "json"
    /\ \E idx \in 1..Len(u_gallery), stored \in BOOLEAN :
          Becomes(Event("delete", <<>>, "", idx), stored)

UiNext ==
    \/ UiRadio
    \/ UiToggle
    \/ UiUploadPhotos
    \/ UiLoadJson
    \/ UiLoadExcel
    \/ UiStart
    \/ UiClear
    \/ UiDelete

SpecPage == UiInit /\ [][UiNext]_vars

\* A result is on the page: line 1616, under "if photo_gallery"
Displayed == u_gallery # <<>> /\ u_cache.set

\* C30: whatever the user has done, a result that is on the page was computed
\* from the gallery as it now is.
C30_ResultIsCurrent == Displayed => u_cache.of = u_gallery
====
